---------------------------- MODULE Spec2Model ----------------------------
(***************************************************************************)
(* Mesh topology classification and spatial-coverage scoring engine of     *)
(* MeshAnalyzer (class MeshIntelligence of mesh_analyzer.py), the overlap  *)
(* estimator (class MeshVennCalculator of mesh_venn_calculator.py), and    *)
(* the connection monitor and its event logger (class MeshRoamingDetector  *)
(* of mesh_roaming_detector.py).                                           *)
(*                                                                         *)
(* A BSSID is the tuple of its six octets, so that the string operations   *)
(* of the code (split(':')[:-1], split(':')[:3]) are SubSeq on the tuple.  *)
(* An exception raised by the code is the control state "raised".          *)
(* The templated human-readable strings (signal_reason, summary, impact,   *)
(* location, recommendations) carry no decision and are left out; the      *)
(* numbers the 'details' strings embed are kept as a tuple.                *)
(***************************************************************************)
EXTENDS Integers, Sequences, FiniteSets, TLC

(***************************************************************************)
(* Bounds of the model.                                                    *)
(***************************************************************************)
\* longest generic observation list handed to analyze_mesh_topology
MaxAps == 4
\* longest signal list handed directly to _perform_spatial_coverage_analysis,
\* and longest node list handed to generate_venn_data
MaxNodes == 5

(***************************************************************************)
(* Generic helpers (Python built-ins).                                     *)
(***************************************************************************)
Range(s) == {s[k] : k \in DOMAIN s}

\* max(...) / min(...) of a non-empty collection of integers
MaxOf(S) == CHOOSE x \in S : \A y \in S : y <= x
MinOf(S) == CHOOSE x \in S : \A y \in S : y >= x

\* sorted(signals, reverse=True)
RECURSIVE SortedDesc(_)
SortedDesc(s) ==
   IF s = <<>> THEN <<>>
   ELSE LET m == MaxOf(Range(s))
            k == CHOOSE j \in DOMAIN s : s[j] = m /\ \A h \in 1..(j-1) : s[h] # m
        IN  <<m>> \o SortedDesc(SubSeq(s, 1, k-1) \o SubSeq(s, k+1, Len(s)))

\* every listing of a finite set as a duplicate-free sequence
SeqsOfSet(S) ==
   {f \in [1..Cardinality(S) -> S] : \A a, b \in 1..Cardinality(S) : a # b => f[a] # f[b]}

\* sorted(list(all_bands)): Python string order of the four band names
BandRank(b) ==
   CASE b = "2.4GHz" -> 1 [] b = "5GHz" -> 2 [] b = "6GHz" -> 3 [] b = "other" -> 4

SortedBands(S) ==
   CHOOSE f \in SeqsOfSet(S) :
      \A a, b \in 1..Cardinality(S) : a < b => BandRank(f[a]) < BandRank(f[b])

(***************************************************************************)
(* The static OUI table (MeshIntelligence.__init__), in declaration order. *)
(***************************************************************************)
oui_database_literal ==
   <<
      [brand |-> "eero",
       ouis |-> <<<<160, 33, 183>>, <<104, 29, 160>>, <<176, 142, 134>>, <<248, 187, 191>>, <<216, 142, 212>>, <<232, 211, 235>>>>],
      [brand |-> "orbi_netgear",
       ouis |-> <<<<152, 151, 154>>, <<68, 177, 59>>, <<156, 40, 239>>, <<160, 4, 96>>, <<4, 161, 81>>>>],
      [brand |-> "google_nest",
       ouis |-> <<<<164, 80, 70>>, <<100, 255, 137>>, <<204, 82, 175>>, <<108, 113, 13>>>>],
      [brand |-> "asus",
       ouis |-> <<<<64, 237, 0>>, <<136, 31, 161>>, <<172, 158, 23>>, <<44, 86, 220>>, <<4, 212, 196>>>>],
      [brand |-> "tp_link_deco",
       ouis |-> <<<<152, 37, 74>>, <<68, 148, 252>>, <<176, 72, 122>>, <<80, 199, 191>>, <<164, 43, 176>>>>],
      [brand |-> "linksys_velop",
       ouis |-> <<<<108, 190, 233>>, <<19, 16, 71>>, <<152, 158, 100>>, <<148, 16, 62>>, <<196, 65, 30>>>>],
      [brand |-> "ubiquiti",
       ouis |-> <<<<120, 138, 32>>, <<36, 90, 76>>, <<240, 159, 194>>, <<68, 217, 231>>, <<224, 99, 218>>>>],
      [brand |-> "mikrotik",
       ouis |-> <<<<108, 59, 107>>, <<72, 143, 90>>, <<44, 200, 27>>, <<76, 94, 12>>, <<228, 141, 140>>>>],
      [brand |-> "aruba_hpe",
       ouis |-> <<<<112, 58, 203>>, <<108, 243, 127>>, <<36, 222, 198>>, <<148, 180, 15>>, <<32, 76, 3>>>>],
      [brand |-> "ruckus",
       ouis |-> <<<<80, 145, 227>>, <<44, 54, 248>>, <<148, 62, 234>>, <<188, 20, 133>>, <<88, 147, 150>>>>],
      [brand |-> "cisco_meraki",
       ouis |-> <<<<0, 24, 10>>, <<224, 85, 61>>, <<136, 21, 68>>, <<12, 141, 219>>, <<52, 86, 254>>>>],
      [brand |-> "engenius",
       ouis |-> <<<<136, 220, 150>>, <<80, 43, 115>>, <<2, 207, 127>>, <<0, 2, 111>>>>],
      [brand |-> "dlink",
       ouis |-> <<<<204, 178, 85>>, <<184, 163, 134>>, <<52, 8, 4>>, <<20, 214, 77>>, <<132, 201, 178>>>>],
      [brand |-> "netgear_general",
       ouis |-> <<<<16, 13, 127>>, <<40, 198, 142>>, <<176, 127, 185>>, <<76, 96, 222>>>>],
      [brand |-> "plume_adaptive",
       ouis |-> <<<<116, 218, 136>>, <<120, 40, 202>>, <<160, 64, 160>>>>],
      [brand |-> "xfinity_pods",
       ouis |-> <<<<168, 78, 63>>, <<0, 53, 26>>, <<140, 59, 173>>>>],
      [brand |-> "amazon_amplifi",
       ouis |-> <<<<116, 198, 59>>, <<228, 149, 110>>>>],
      [brand |-> "tenda",
       ouis |-> <<<<200, 58, 53>>, <<252, 124, 2>>, <<152, 222, 208>>>>],
      [brand |-> "xiaomi_mesh",
       ouis |-> <<<<52, 206, 0>>, <<100, 100, 74>>, <<248, 89, 113>>>>],
      [brand |-> "honor_huawei",
       ouis |-> <<<<0, 224, 252>>, <<152, 244, 40>>, <<160, 140, 253>>>>]
   >>

\* the instance attribute self.oui_database, set from the literal by __init__
VARIABLE oui_database

\* first brand, in table declaration order, that lists the OUI; "None" if none
BrandOfOui(oui) ==
   LET hits == {k \in DOMAIN oui_database : oui \in Range(oui_database[k].ouis)}
   IN  IF hits = {} THEN "None" ELSE oui_database[MinOf(hits)].brand

\* identify_mesh_brand with the loops swapped: brands outermost, so that the
\* earliest-declared brand any BSSID matches decides
identify_mesh_brand_BrandFirst(bssids) ==
   LET hits == {k \in DOMAIN oui_database :
                   \E j \in DOMAIN bssids :
                      SubSeq(bssids[j], 1, 3) \in Range(oui_database[k].ouis)}
   IN  IF hits = {} THEN "None" ELSE oui_database[MinOf(hits)].brand

\* identify_mesh_brand: the first BSSID of the list whose OUI is in the table decides
identify_mesh_brand(bssids) ==
   LET known == {k \in DOMAIN bssids : BrandOfOui(SubSeq(bssids[k], 1, 3)) # "None"}
   IN  IF known = {} THEN "None"
       ELSE BrandOfOui(SubSeq(bssids[MinOf(known)], 1, 3))

(***************************************************************************)
(* Pure functions of MeshIntelligence.                                     *)
(***************************************************************************)
\* base_mac = ':'.join(ap.bssid.split(':')[:-1])
BaseMac(bssid) == SubSeq(bssid, 1, Len(bssid) - 1)

\* _determine_band with the upper limit of the 5 GHz range excluded
_determine_band_Exclusive(freq) ==
   IF 2400 <= freq /\ freq <= 2500 THEN "2.4GHz"
   ELSE IF 5000 <= freq /\ freq < 5999 THEN "5GHz"
   ELSE IF 6000 <= freq /\ freq <= 7125 THEN "6GHz"
   ELSE "other"

_determine_band(freq) ==
   IF 2400 <= freq /\ freq <= 2500 THEN "2.4GHz"
   ELSE IF 5000 <= freq /\ freq <= 5999 THEN "5GHz"
   ELSE IF 6000 <= freq /\ freq <= 7125 THEN "6GHz"
   ELSE "other"

_is_likely_same_mesh_system(base_macs) ==
   IF Len(base_macs) < 2 THEN FALSE
   ELSE Cardinality({SubSeq(base_macs[k], 1, 3) : k \in DOMAIN base_macs}) = 1

\* SingleApResult without the empty-list case: the missing observation is
\* reported as one node of the weakest tier
SingleApResult_NoEmptyCase(aps) ==
   LET signal == IF aps = <<>> THEN -100 ELSE aps[1].signal
   IN  [type |-> "single_ap",
        nodes |-> 1,
        signal_quality |->
           IF signal > -50 THEN "excellent"
           ELSE IF signal > -60 THEN "good"
           ELSE IF signal > -75 THEN "fair"
           ELSE "poor",
        signal_strength |-> signal]

\* the len(same_ssid_aps) <= 1 branch of analyze_mesh_topology
SingleApResult(aps) ==
   IF aps = <<>> THEN [type |-> "single_ap", nodes |-> 0]
   ELSE LET ap == aps[1]
        IN  [type |-> "single_ap",
             nodes |-> 1,
             signal_quality |->
                IF ap.signal > -50 THEN "excellent"
                ELSE IF ap.signal > -60 THEN "good"
                ELSE IF ap.signal > -75 THEN "fair"
                ELSE "poor",
             signal_strength |-> ap.signal]

\* _analyze_multiple_aps rating the first observation instead of the strongest
_analyze_multiple_aps_FirstSignal(aps) ==
   LET strongest_signal == aps[1].signal
   IN  [type |-> "multiple_aps",
        nodes |-> Len(aps),
        signal_quality |->
           IF strongest_signal > -50 THEN "excellent"
           ELSE IF strongest_signal > -60 THEN "good"
           ELSE IF strongest_signal > -75 THEN "fair"
           ELSE "poor",
        strongest_signal |-> strongest_signal,
        ap_list |-> aps]

_analyze_multiple_aps(aps) ==
   LET strongest_signal == MaxOf({aps[k].signal : k \in DOMAIN aps})
   IN  [type |-> "multiple_aps",
        nodes |-> Len(aps),
        signal_quality |->
           IF strongest_signal > -50 THEN "excellent"
           ELSE IF strongest_signal > -60 THEN "good"
           ELSE IF strongest_signal > -75 THEN "fair"
           ELSE "poor",
        strongest_signal |-> strongest_signal,
        ap_list |-> aps]

(***************************************************************************)
(* Spatial coverage analysis.                                              *)
(***************************************************************************)
\* signal_gaps of _perform_spatial_coverage_analysis
SignalGaps(ss) == [k \in 1..(Len(ss) - 1) |-> ss[k] - ss[k + 1]]

InPrimary(s) == s > -50
\* InSecondary as an 'if' in place of the 'elif'
InSecondary_If(s) == s > -65
InSecondary(s) == ~(s > -50) /\ s > -65
InTertiary(s) == ~(s > -50) /\ ~(s > -65) /\ s > -80
InFringe(s) == ~(s > -50) /\ ~(s > -65) /\ ~(s > -80)

_classify_coverage_zones(ss) ==
   [primary |-> SelectSeq(ss, InPrimary),
    secondary |-> SelectSeq(ss, InSecondary),
    tertiary |-> SelectSeq(ss, InTertiary),
    fringe |-> SelectSeq(ss, InFringe)]

\* GapSeverity with the high threshold met at 35 dB
GapSeverity_HighAt35(gap) == IF gap >= 35 THEN "high" ELSE "medium"

\* 'high' if gap > 35 else 'medium' (line 1924)
GapSeverity(gap) == IF gap > 35 THEN "high" ELSE "medium"

\* the large-gap loop of _detect_coverage_issues, one issue per gap > 25, in order
RECURSIVE GapIssues(_, _, _)
GapIssues(ss, gaps, k) ==
   IF k > Len(gaps) THEN <<>>
   ELSE (IF gaps[k] > 25
         THEN <<[type |-> "large_coverage_gap",
                 severity |-> GapSeverity(gaps[k]),
                 details |-> <<gaps[k], k, ss[k], k + 1, ss[k + 1]>>]>>
         ELSE <<>>)
        \o GapIssues(ss, gaps, k + 1)

\* PrimaryClustered met by exactly 60% of the nodes
PrimaryClustered_AtSixty(zs, ss) == 10 * Len(zs.primary) >= 6 * Len(ss)

\* len(zones['primary']) > len(sorted_signals) * 0.6, in tenths (the float
\* product n * 0.6 lies on the same side of every integer as 6n/10)
PrimaryClustered(zs, ss) == 10 * Len(zs.primary) > 6 * Len(ss)

_detect_coverage_issues(ss, gaps, zs) ==
   GapIssues(ss, gaps, 1)
   \o (IF zs.secondary = <<>> /\ zs.primary # <<>> /\ zs.tertiary # <<>>
       THEN <<[type |-> "missing_intermediate_coverage", severity |-> "medium",
               details |-> <<>>]>>
       ELSE <<>>)
   \o (IF PrimaryClustered(zs, ss)
       THEN <<[type |-> "node_clustering", severity |-> "low",
               details |-> <<Len(zs.primary), Len(ss)>>]>>
       ELSE <<>>)
   \o (IF zs.fringe # <<>> /\ zs.tertiary = <<>>
       THEN <<[type |-> "isolated_distant_node", severity |-> "medium",
               details |-> <<MinOf(Range(ss))>>]>>
       ELSE <<>>)

\* number of issues of one severity
CountSeverity(issues, sev) == Cardinality({k \in DOMAIN issues : issues[k].severity = sev})

\* RawQualityScore with a low-severity issue costing as much as a high one
RawQualityScore_HeavyLow(gaps, zs, issues) ==
   100 - 25 * CountSeverity(issues, "high")
       - 15 * CountSeverity(issues, "medium")
       - 25 * CountSeverity(issues, "low")
       + (IF Len(zs.secondary) > 0 THEN 10 ELSE 0)
       + (IF MaxOf(Range(gaps)) < 20 THEN 15 ELSE 0)

\* quality_score before the final clamp (lines 1966-1982); needs gaps # <<>>
RawQualityScore(gaps, zs, issues) ==
   100 - 25 * CountSeverity(issues, "high")
       - 15 * CountSeverity(issues, "medium")
       - 5 * CountSeverity(issues, "low")
       + (IF Len(zs.secondary) > 0 THEN 10 ELSE 0)
       + (IF MaxOf(Range(gaps)) < 20 THEN 15 ELSE 0)

\* ClampScore without the max(0, ...)
ClampScore_NoFloor(q) == IF q < 100 THEN q ELSE 100

\* max(0, min(100, quality_score))
ClampScore(q) ==
   LET low == IF q < 100 THEN q ELSE 100
   IN  IF low > 0 THEN low ELSE 0

\* Classification with node_count <= 3 in place of node_count < 3
Classification_OffByOne(node_count, quality_score, issues) ==
   LET high_severity_issues == CountSeverity(issues, "high") > 0
       medium_severity_issues == CountSeverity(issues, "medium") > 0
   IN  IF high_severity_issues THEN "topology_issues"
       ELSE IF medium_severity_issues /\ node_count <= 3 THEN "basic_topology"
       ELSE IF medium_severity_issues THEN "good_topology"
       ELSE IF node_count >= 4 /\ quality_score > 85 THEN "excellent_topology"
       ELSE IF node_count >= 3 /\ quality_score > 75 THEN "good_topology"
       ELSE "basic_topology"

\* the overall classification of _assess_mesh_topology (lines 2015-2036)
Classification(node_count, quality_score, issues) ==
   LET high_severity_issues == CountSeverity(issues, "high") > 0
       medium_severity_issues == CountSeverity(issues, "medium") > 0
   IN  IF high_severity_issues THEN "topology_issues"
       ELSE IF medium_severity_issues /\ node_count < 3 THEN "basic_topology"
       ELSE IF medium_severity_issues THEN "good_topology"
       ELSE IF node_count >= 4 /\ quality_score > 85 THEN "excellent_topology"
       ELSE IF node_count >= 3 /\ quality_score > 75 THEN "good_topology"
       ELSE "basic_topology"

\* distribution_quality of _assess_mesh_topology (lines 2000-2013)
Distribution(gaps) ==
   LET max_gap == IF gaps # <<>> THEN MaxOf(Range(gaps)) ELSE 0
   IN  IF max_gap > 30 THEN "poor_distribution"
       ELSE IF max_gap > 20 THEN "uneven_distribution"
       ELSE IF max_gap > 10 THEN "good_distribution"
       ELSE "excellent_distribution"

\* max(signal_gaps) at line 1981 raises ValueError on an empty gap list
AssessRaises(gaps) == gaps = <<>>

\* _assess_mesh_topology on a non-empty gap list
_assess_mesh_topology(ss, gaps, zs, issues) ==
   LET quality_score == RawQualityScore(gaps, zs, issues)
   IN  [classification |-> Classification(Len(ss), quality_score, issues),
        quality_score |-> ClampScore(quality_score),
        distribution_quality |-> Distribution(gaps)]

\* _perform_spatial_coverage_analysis on a list it does not raise on
_perform_spatial_coverage_analysis(ss) ==
   LET gaps == SignalGaps(ss)
       zs == _classify_coverage_zones(ss)
       issues == _detect_coverage_issues(ss, gaps, zs)
       topology_assessment == _assess_mesh_topology(ss, gaps, zs, issues)
   IN  [sorted_signals |-> ss,
        signal_gaps |-> gaps,
        max_signal_gap |-> IF gaps # <<>> THEN MaxOf(Range(gaps)) ELSE 0,
        coverage_zones |-> zs,
        coverage_issues |-> issues,
        topology_classification |-> topology_assessment.classification,
        spatial_distribution |-> topology_assessment.distribution_quality,
        coverage_quality_score |-> topology_assessment.quality_score]
(***************************************************************************)
(* mesh_venn_calculator.py.  Floats are kept in fixed point: angles and    *)
(* cosines in 1/10000, layout coordinates in 1/100 of a layout unit,       *)
(* areas in 1/10000 of a square pixel, percentages in 1/100 of a percent.  *)
(* Against the floats of the code the percentages are off by less than     *)
(* 2/100 of a percent; the branch taken and the pairs retained are exact.  *)
(***************************************************************************)
min_radius == 40
max_radius == 120
Unit == 10000          \* fixed-point one of angles, sines and cosines
Pi == 31416            \* math.pi in 1/10000
Cell == 100            \* fixed-point one of layout coordinates

Min2(a, b) == IF a < b THEN a ELSE b
Max2(a, b) == IF a > b THEN a ELSE b

\* n / d rounded to the nearest integer, d > 0
RoundDiv(n, d) == (2 * n + d) \div (2 * d)

\* math.sqrt, rounded down to an integer
RECURSIVE SqrtBetween(_, _, _)
SqrtBetween(n, lo, hi) ==
   IF hi - lo <= 1 THEN lo
   ELSE LET mid == (lo + hi) \div 2
        IN  IF mid * mid <= n THEN SqrtBetween(n, mid, hi) ELSE SqrtBetween(n, lo, mid)
ISqrt(n) == SqrtBetween(n, 0, 46341)

\* cosine and sine of an angle t in 0..Pi/2, by their Taylor series
CosSeries(t) ==
   LET x2 == (t * t) \div Unit
       t5 == Unit - (x2 * Unit) \div (90 * Unit)
       t4 == Unit - (x2 * t5) \div (56 * Unit)
       t3 == Unit - (x2 * t4) \div (30 * Unit)
       t2 == Unit - (x2 * t3) \div (12 * Unit)
   IN  Unit - (x2 * t2) \div (2 * Unit)
SinSeries(t) ==
   LET x2 == (t * t) \div Unit
       t5 == Unit - (x2 * Unit) \div (110 * Unit)
       t4 == Unit - (x2 * t5) \div (72 * Unit)
       t3 == Unit - (x2 * t4) \div (42 * Unit)
       t2 == Unit - (x2 * t3) \div (20 * Unit)
       t1 == Unit - (x2 * t2) \div (6 * Unit)
   IN  (t * t1) \div Unit

\* math.cos and math.sin of an angle in 0..2*Pi
Cos(a) ==
   IF 2 * a <= Pi THEN CosSeries(a)
   ELSE IF a <= Pi THEN -CosSeries(Pi - a)
   ELSE IF 2 * a <= 3 * Pi THEN -CosSeries(a - Pi)
   ELSE CosSeries(2 * Pi - a)
Sin(a) ==
   IF 2 * a <= Pi THEN SinSeries(a)
   ELSE IF a <= Pi THEN SinSeries(Pi - a)
   ELSE IF 2 * a <= 3 * Pi THEN -SinSeries(a - Pi)
   ELSE -SinSeries(2 * Pi - a)

\* the angle in 0..Pi whose cosine is c and whose sine is s >= 0
RECURSIVE AngleBetween(_, _, _, _)
AngleBetween(c, s, lo, hi) ==
   IF hi - lo <= 1 THEN lo
   ELSE LET mid == (lo + hi) \div 2
        IN  IF Sin(mid) * c - Cos(mid) * s <= 0
            THEN AngleBetween(c, s, mid, hi) ELSE AngleBetween(c, s, lo, mid)

\* math.acos(c), for a cosine c whose angle has the sine s
acos(c, s) == AngleBetween(c, s, 0, Pi + 1)

\* calculate_coverage_radius with the clamp set min_radius too high
calculate_coverage_radius_HighCeiling(signal_dbm) ==
   LET normalized_signal == Max2(0, signal_dbm + 100)
       radius == min_radius + (normalized_signal * 7) \div 2
   IN  Min2(max_radius + min_radius, Max2(min_radius, radius))

\* calculate_coverage_radius; coverage_multiplier 3.5 is 7/2, and int()
\* rounds the non-negative radius down
calculate_coverage_radius(signal_dbm) ==
   LET normalized_signal == Max2(0, signal_dbm + 100)
       radius == min_radius + (normalized_signal * 7) \div 2
   IN  Min2(max_radius, Max2(min_radius, radius))

Position(x, y) == [x |-> x, y |-> y]

\* SignalRank with equal signals taken in reverse input order
SignalRank_TiesLast(nodes_data, i) ==
   1 + Cardinality({j \in DOMAIN nodes_data :
                       \/ nodes_data[j].signal > nodes_data[i].signal
                       \/ nodes_data[j].signal = nodes_data[i].signal /\ j > i})

\* sorted(range(len(nodes_data)), key=signal, reverse=True): the rank of
\* index i, equal signals staying in input order
SignalRank(nodes_data, i) ==
   1 + Cardinality({j \in DOMAIN nodes_data :
                       \/ nodes_data[j].signal > nodes_data[i].signal
                       \/ nodes_data[j].signal = nodes_data[i].signal /\ j < i})

_position_two_nodes(nodes_data) ==
   LET strong == CHOOSE i \in DOMAIN nodes_data : SignalRank(nodes_data, i) = 1
       weak == CHOOSE i \in DOMAIN nodes_data : SignalRank(nodes_data, i) = 2
       radius1 == calculate_coverage_radius(nodes_data[strong].signal)
       radius2 == calculate_coverage_radius(nodes_data[weak].signal)
       \* overlap_distance / 4 = (radius1 + radius2) * 0.6 / 4, in 1/100
       quarter == 15 * (radius1 + radius2)
   IN  <<Position(40 * Cell, 50 * Cell), Position(40 * Cell + quarter, 50 * Cell)>>

_position_three_nodes(nodes_data) ==
   LET base_positions == <<Position(35 * Cell, 35 * Cell), Position(65 * Cell, 35 * Cell),
                           Position(50 * Cell, 65 * Cell)>>
   IN  [i \in DOMAIN nodes_data |-> base_positions[SignalRank(nodes_data, i)]]

_position_four_nodes(nodes_data) ==
   LET base_positions == <<Position(40 * Cell, 35 * Cell), Position(60 * Cell, 35 * Cell),
                           Position(35 * Cell, 55 * Cell), Position(65 * Cell, 55 * Cell)>>
   IN  [i \in DOMAIN nodes_data |-> base_positions[SignalRank(nodes_data, i)]]

\* the spiral; k is the 1-based index, the code's i is k - 1
_position_many_nodes(nodes_data) ==
   LET node_count == Len(nodes_data)
       Spot(k) ==
          IF k = 1 THEN Position(50 * Cell, 50 * Cell)
          ELSE LET angle == RoundDiv((k - 2) * 2 * Pi, node_count - 1)
                   radius_offset == 15 + (k - 2) * 5
                   x == 50 * Cell + RoundDiv(radius_offset * Cos(angle), Unit \div Cell)
                   y == 50 * Cell + RoundDiv(radius_offset * Sin(angle), Unit \div Cell)
               IN  Position(Max2(20 * Cell, Min2(80 * Cell, x)),
                            Max2(20 * Cell, Min2(80 * Cell, y)))
   IN  [k \in DOMAIN nodes_data |-> Spot(k)]

calculate_optimal_positions(nodes_data) ==
   LET node_count == Len(nodes_data)
   IN  IF node_count = 1 THEN <<Position(50 * Cell, 50 * Cell)>>
       ELSE IF node_count = 2 THEN _position_two_nodes(nodes_data)
       ELSE IF node_count = 3 THEN _position_three_nodes(nodes_data)
       ELSE IF node_count = 4 THEN _position_four_nodes(nodes_data)
       ELSE _position_many_nodes(nodes_data)

\* the square of distance (line 135), in 1/10000
DistanceSquared(node1, node2) ==
   16 * ( (node2.position.x - node1.position.x) * (node2.position.x - node1.position.x)
        + (node2.position.y - node1.position.y) * (node2.position.y - node1.position.y))

\* OverlapReturn leaving by the enclosed-circle branch only for d < |r1 - r2|
OverlapReturn_StrictInside(node1, node2) ==
   LET r1 == calculate_coverage_radius(node1.signal)
       r2 == calculate_coverage_radius(node2.signal)
       d2 == DistanceSquared(node1, node2)
   IN  IF d2 >= (r1 + r2) * (r1 + r2) * Cell * Cell THEN 139
       ELSE IF d2 < (r1 - r2) * (r1 - r2) * Cell * Cell THEN 145
       ELSE 156

\* OverlapReturn taking two circles that touch from outside as overlapping
OverlapReturn_StrictApart(node1, node2) ==
   LET r1 == calculate_coverage_radius(node1.signal)
       r2 == calculate_coverage_radius(node2.signal)
       d2 == DistanceSquared(node1, node2)
   IN  IF d2 > (r1 + r2) * (r1 + r2) * Cell * Cell THEN 139
       ELSE IF d2 <= (r1 - r2) * (r1 - r2) * Cell * Cell THEN 145
       ELSE 156

\* the return statement calculate_overlap_percentage leaves by: line 139,
\* 145 or 156.  distance >= r1 + r2 and distance <= abs(r1 - r2) are decided
\* on the squares, which are exact.
OverlapReturn(node1, node2) ==
   LET r1 == calculate_coverage_radius(node1.signal)
       r2 == calculate_coverage_radius(node2.signal)
       d2 == DistanceSquared(node1, node2)
   IN  IF d2 >= (r1 + r2) * (r1 + r2) * Cell * Cell THEN 139
       ELSE IF d2 <= (r1 - r2) * (r1 - r2) * Cell * Cell THEN 145
       ELSE 156

\* the divisions by 2 * distance * r1 and 2 * distance * r2 of lines 149-150
\* raise ZeroDivisionError when the divisor is 0
OverlapRaises(node1, node2) ==
   /\ OverlapReturn(node1, node2) = 156
   /\ \/ DistanceSquared(node1, node2) = 0
      \/ calculate_coverage_radius(node1.signal) = 0
      \/ calculate_coverage_radius(node2.signal) = 0

\* lines 149-156, the partial overlap of two circles whose rims cross
PartialOverlap(r1, r2, d2) ==
   LET distance == ISqrt(d2)                                 \* in 1/100
       \* sqrt((-d + r1 + r2) * (d + r1 + r2)) and sqrt((d + r1 - r2) * (d - r1 + r2))
       outer == ISqrt((r1 + r2) * (r1 + r2) * Cell * Cell - d2)
       inner == ISqrt(d2 - (r1 - r2) * (r1 - r2) * Cell * Cell)
       root == outer * inner                                 \* in 1/10000
       \* n / (2 * distance * r)
       Ratio(n, r) == Max2(-Unit, Min2(Unit, ((n \div distance) * (Cell \div 2)) \div r))
       cos1 == Ratio(d2 + (r1 * r1 - r2 * r2) * Cell * Cell, r1)
       cos2 == Ratio(d2 + (r2 * r2 - r1 * r1) * Cell * Cell, r2)
       a == r1 * r1 * acos(cos1, Ratio(root, r1))
       b == r2 * r2 * acos(cos2, Ratio(root, r2))
       c == root \div 2
       intersection_area == a + b - c
       total_area == Pi * r1 * r1 + Pi * r2 * r2 - intersection_area
   IN  IF total_area > 0 THEN intersection_area \div (total_area \div Unit) ELSE 0

\* calculate_overlap_percentage, in 1/100 of a percent
calculate_overlap_percentage(node1, node2) ==
   LET r1 == calculate_coverage_radius(node1.signal)
       r2 == calculate_coverage_radius(node2.signal)
       line == OverlapReturn(node1, node2)
   IN  IF line = 139 THEN 0
       ELSE IF line = 145
       THEN LET smaller_area == Min2(r1, r2) * Min2(r1, r2)    \* in units of pi
                larger_area == Max2(r1, r2) * Max2(r1, r2)
            IN  (smaller_area * 100 * 100) \div larger_area
       ELSE PartialOverlap(r1, r2, DistanceSquared(node1, node2))

\* the pairs (i, j), i < j <= n, in the order of the loops of lines 180-181
RECURSIVE PairsFrom(_, _)
PairsFrom(i, n) ==
   IF i >= n THEN <<>>
   ELSE [k \in 1..(n - i) |-> <<i, i + k>>] \o PairsFrom(i + 1, n)

RECURSIVE SumOf(_)
SumOf(s) == IF s = <<>> THEN 0 ELSE s[1] + SumOf(Tail(s))

\* generate_venn_data; coverage_area and total_coverage in whole square
\* pixels, node ids counted from 0 as in the code
generate_venn_data(nodes_data) ==
   IF nodes_data = <<>> THEN [nodes |-> <<>>, overlaps |-> <<>>, total_coverage |-> 0]
   ELSE
   LET positions == calculate_optimal_positions(nodes_data)
       venn_nodes ==
          [i \in DOMAIN nodes_data |->
             LET radius == calculate_coverage_radius(nodes_data[i].signal)
             IN  [label |-> nodes_data[i].label,
                  signal |-> nodes_data[i].signal,
                  position |-> positions[i],
                  radius |-> radius,
                  coverage_area |-> (Pi * radius * radius) \div Unit]]
       Overlap(p) ==
          [node1_id |-> p[1] - 1,
           node2_id |-> p[2] - 1,
           overlap_percentage |-> calculate_overlap_percentage(venn_nodes[p[1]], venn_nodes[p[2]]),
           node1_label |-> venn_nodes[p[1]].label,
           node2_label |-> venn_nodes[p[2]].label]
       Significant(o) == o.overlap_percentage > 5 * 100
       all_pairs == PairsFrom(1, Len(venn_nodes))
       overlaps == SelectSeq([k \in DOMAIN all_pairs |-> Overlap(all_pairs[k])], Significant)
   IN  [nodes |-> venn_nodes,
        overlaps |-> overlaps,
        total_coverage |-> SumOf([i \in DOMAIN venn_nodes |-> venn_nodes[i].coverage_area]),
        overlap_count |-> Len(overlaps),
        avg_overlap |-> IF overlaps # <<>>
                        THEN SumOf([k \in DOMAIN overlaps |-> overlaps[k].overlap_percentage])
                                \div Len(overlaps)
                        ELSE 0]

\* QualityOfScore with 60 still rated fair
QualityOfScore_GoodAbove60(score) ==
   IF score >= 80 THEN "excellent"
   ELSE IF score > 60 THEN "good"
   ELSE IF score >= 40 THEN "fair"
   ELSE "poor"

\* the quality level of a score (lines 254-265)
QualityOfScore(score) ==
   IF score >= 80 THEN "excellent"
   ELSE IF score >= 60 THEN "good"
   ELSE IF score >= 40 THEN "fair"
   ELSE "poor"

\* AveragePoints without the band above 5%
AveragePoints_NoLowBand(avg_overlap) ==
   IF avg_overlap > 25 * 100 THEN 25
   ELSE IF avg_overlap > 15 * 100 THEN 15
   ELSE 0

\* the points for the average overlap (lines 245-251), avg_overlap in 1/100 %
AveragePoints(avg_overlap) ==
   IF avg_overlap > 25 * 100 THEN 25
   ELSE IF avg_overlap > 15 * 100 THEN 15
   ELSE IF avg_overlap > 5 * 100 THEN 10
   ELSE 0

\* lines 215-273 of get_overlap_quality_assessment, the scoring of two or
\* more nodes; a formatted string is kept as the sequence of its pieces,
\* avg_overlap_pct in 1/10 of a percent
OverlapScoring(venn_data) ==
   LET overlaps == venn_data.overlaps
       nodes == venn_data.nodes
       Pct(k) == overlaps[k].overlap_percentage
       high_overlaps == {k \in DOMAIN overlaps : Pct(k) > 30 * 100}
       medium_overlaps == {k \in DOMAIN overlaps : 15 * 100 <= Pct(k) /\ Pct(k) <= 30 * 100}
       total_possible_overlaps == (Len(nodes) * (Len(nodes) - 1)) \div 2
       actual_overlaps == Len(overlaps)
       coverage_points == IF 10 * actual_overlaps > 7 * total_possible_overlaps THEN 30
                          ELSE IF 10 * actual_overlaps > 5 * total_possible_overlaps THEN 20
                          ELSE 10
       balance_points == IF high_overlaps # {} /\ medium_overlaps # {} THEN 25
                         ELSE IF medium_overlaps # {} THEN 15
                         ELSE 0
       some_points == IF actual_overlaps > 0 THEN 20 ELSE 0
       avg_overlap == venn_data.avg_overlap
       average_points == AveragePoints(avg_overlap)
       score == coverage_points + balance_points + some_points + average_points
       quality == QualityOfScore(score)
       description ==
          IF score >= 80
          THEN <<"Excellent mesh overlap - ", actual_overlaps, "/",
                 total_possible_overlaps, " node pairs overlapping">>
          ELSE IF score >= 60
          THEN <<"Good mesh overlap - ", actual_overlaps, "/",
                 total_possible_overlaps, " node pairs with coverage overlap">>
          ELSE IF score >= 40 THEN <<"Fair mesh overlap - some coverage gaps possible">>
          ELSE <<"Poor mesh overlap - significant coverage gaps likely">>
   IN  [quality |-> quality,
        score |-> Min2(100, score),
        description |-> description,
        overlap_ratio |-> <<actual_overlaps, "/", total_possible_overlaps>>,
        avg_overlap_pct |-> RoundDiv(avg_overlap, 10)]

single_node ==
   [quality |-> "single_node", score |-> 100,
    description |-> <<"Single node - no overlap analysis needed">>]

\* get_overlap_quality_assessment returning early only for no node at all
get_overlap_quality_assessment_NoNodeOnly(venn_data) ==
   IF Len(venn_data.nodes) < 1 THEN single_node ELSE OverlapScoring(venn_data)

get_overlap_quality_assessment(venn_data) ==
   IF Len(venn_data.nodes) < 2 THEN single_node ELSE OverlapScoring(venn_data)

(***************************************************************************)
(* Inputs.  A radio keeps its frequency across scans, so an observation    *)
(* of the pool is a radio (BSSID, frequency) at one of its signals.  The   *)
(* signals sit on and beside the tier thresholds -50, -60 and -75.         *)
(* comprehensive_scan keys its observations by BSSID, so a scanned group   *)
(* holds each radio at most once.                                          *)
(***************************************************************************)
B30 == <<170, 187, 204, 17, 34, 48>>      \* AA:BB:CC:11:22:30
B31 == <<170, 187, 204, 17, 34, 49>>      \* AA:BB:CC:11:22:31
B32 == <<170, 187, 204, 17, 34, 50>>      \* AA:BB:CC:11:22:32
B40 == <<170, 187, 204, 17, 34, 64>>      \* AA:BB:CC:11:22:40
B41 == <<170, 187, 204, 17, 34, 65>>      \* AA:BB:CC:11:22:41
C30 == <<170, 187, 204, 17, 35, 48>>      \* AA:BB:CC:11:23:30, same OUI, other base
C31 == <<170, 187, 204, 17, 35, 49>>      \* AA:BB:CC:11:23:31
E01 == <<160, 33, 183, 0, 0, 1>>          \* A0:21:B7:00:00:01, an eero OUI
G01 == <<164, 80, 70, 0, 0, 1>>           \* A4:50:46:00:00:01, a google_nest OUI
G02 == <<164, 80, 70, 0, 0, 2>>           \* A4:50:46:00:00:02
H01 == <<164, 80, 70, 0, 1, 1>>           \* A4:50:46:00:01:01, same OUI, other base
F10 == <<170, 187, 204, 17, 36, 16>>      \* AA:BB:CC:11:24:10
F11 == <<170, 187, 204, 17, 36, 17>>      \* AA:BB:CC:11:24:11
F12 == <<170, 187, 204, 17, 36, 18>>      \* AA:BB:CC:11:24:12
F20 == <<170, 187, 204, 17, 37, 16>>      \* AA:BB:CC:11:25:10, same OUI, other base

APScan(b, f, s) == [bssid |-> b, freq |-> f, signal |-> s]

PoolRadios ==
   {<<B30, 2437, {-45, -50, -60, -75}>>,
    <<B31, 5180, {-45, -75}>>,
    <<B32, 6115, {-50}>>,
    <<C30, 5180, {-50, -60}>>,
    <<C31, 2462, {-45, -60}>>,
    <<E01, 2437, {-45, -60, -75}>>}
ScanPool == UNION {{APScan(r[1], r[2], s) : s \in r[3]} : r \in PoolRadios}

\* one observation at every signal of the usual dBm range
SingleSignals == (-100)..0
SingleLists == {<<APScan(B30, 2437, s)>> : s \in SingleSignals}

\* Scenario B of the specification
ScenarioB ==
   <<APScan(B30, 2437, -40), APScan(B31, 5180, -45),
     APScan(B40, 2437, -68), APScan(B41, 5180, -70)>>

\* a group with radios of two brands of the OUI table, in every scan order
BrandLists ==
   SeqsOfSet({APScan(G01, 2437, -45), APScan(G02, 5180, -50),
              APScan(H01, 5180, -60), APScan(E01, 2437, -75)})

\* two nodes whose radios sit on and beside the limits of the band ranges
\* (freq 0 is what _parse_ap_data gives a record without a frequency)
BoundaryFreqs ==
   {<<2400, 5000, 7125, 2399>>, <<2500, 5999, 6000, 2501>>, <<4999, 7126, 0, 5180>>}
FreqLists ==
   {<<APScan(F10, f[1], -70), APScan(F11, f[2], -45),
      APScan(F12, f[3], -60), APScan(F20, f[4], -50)>> : f \in BoundaryFreqs}

\* two observations that share neither base MAC nor OUI
Unrelated == <<APScan(E01, 2437, -60), APScan(G01, 5180, -75)>>

\* a node of two radios between two lone radios of two other base MACs, all
\* four of one OUI
ThreeBases ==
   <<APScan(C30, 5180, -45), APScan(B30, 2437, -50),
     APScan(B31, 5180, -60), APScan(F20, 5180, -75)>>

\* lists handed over as they are, besides the lists scanned from the pool
GivenLists ==
   SingleLists \cup {ScenarioB, Unrelated, ThreeBases} \cup BrandLists \cup FreqLists

\* signals handed directly to the coverage analysis: zone and gap boundaries,
\* the scenarios' values, and values far enough apart for many large gaps
CoverageSignals == {0, -20, -30, -36, -40, -45, -50, -55, -65, -70, -72, -80, -85, -90, -108, -144}

\* strongest signals of the nodes handed to generate_venn_data: radii 40, 57,
\* 110 and 120
VennSignals == {-110, -95, -80, 5}

\* signals of the nodes of one call of calculate_overlap_percentage: every
\* radius from 40 to 120, and signals below -100 and above 0
CallSignals == ((-112)..(-70)) \cup {-120, -50, 0, 7}

\* their positions, in layout units: centres that coincide, that are 1, 6, 7,
\* 13, 20 and 25 units apart (a distance of 4, 24, 28, 52, 80 and 100) and
\* that are far apart
CallPositions ==
   {<<50, 50, 50, 50>>, <<50, 50, 51, 50>>, <<50, 50, 50, 56>>, <<50, 56, 50, 49>>,
    <<50, 50, 62, 55>>, <<50, 50, 70, 50>>, <<50, 50, 65, 70>>, <<20, 20, 80, 80>>}

(***************************************************************************)
(* State.                                                                  *)
(***************************************************************************)
VARIABLES
   pc,                \* position: "scan", "call", "input", "gaps", "zones", "issues",
                      \* "assess", "done", "raised", "nodes", "venn", "assessed",
                      \* "overlap"
   same_ssid_aps,     \* the argument of analyze_mesh_topology
   idx,               \* 1-based position of the clustering loop in same_ssid_aps
   mesh_nodes,        \* the dict mesh_nodes, as the sequence of its values in insertion order
   standalone_aps,    \* the list standalone_aps
   result,            \* the value analyze_mesh_topology returned
   sorted_signals,    \* the argument of _perform_spatial_coverage_analysis
   signal_gaps,       \* its local signal_gaps
   zones,             \* its local zones
   coverage_issues,   \* its local coverage_issues
   coverage_analysis, \* the value it returned
   previous_result,   \* what an earlier run of the tool on the same list returned
   other_pass,        \* the locals of a second pass on the same instance
   nodes_data,        \* the argument of generate_venn_data
   venn_data,         \* the value it returned
   assessment,        \* the value get_overlap_quality_assessment returned
   overlap_call,      \* one call of calculate_overlap_percentage: its arguments,
                      \* its locals r1 and r2, the line it returned by, its value
   now,               \* the wall clock time.time() reads, in ticks
   monitoring,        \* MeshRoamingDetector.monitoring
   events,            \* MeshRoamingDetector.events, the deque, oldest event first
   thread,            \* the monitoring thread: "none", "started", "loop", "ended"
   last_state,        \* locals of monitor_connection_state
   last_bssid,
   disconnect_start,
   log,               \* the lines written to the log file by this session
   last_event_count,  \* locals of continuous_quality_monitor
   pending            \* the events its for loop has still to go through

vars == <<pc, same_ssid_aps, idx, mesh_nodes, standalone_aps, result,
          sorted_signals, signal_gaps, zones, coverage_issues, coverage_analysis,
          previous_result, other_pass, oui_database,
          nodes_data, venn_data, assessment, overlap_call,
          now, monitoring, events, thread, last_state, last_bssid, disconnect_start,
          log, last_event_count, pending>>

topology_vars == <<same_ssid_aps, idx, mesh_nodes, standalone_aps, result>>
coverage_vars == <<sorted_signals, signal_gaps, zones, coverage_issues, coverage_analysis>>

\* what a step of analyze_mesh_topology, and what a step of
\* _perform_spatial_coverage_analysis called on its own, cannot reach
venn_vars == <<nodes_data, venn_data, assessment, overlap_call>>
monitor_vars == <<monitoring, events, thread, last_state, last_bssid, disconnect_start>>
logger_vars == <<log, last_event_count, pending>>
detector_vars == <<now, monitor_vars, logger_vars>>
outside_topology ==
   <<coverage_vars, previous_result, other_pass, oui_database, venn_vars, detector_vars>>
outside_coverage ==
   <<topology_vars, previous_result, other_pass, oui_database, venn_vars, detector_vars>>
outside_venn ==
   <<topology_vars, coverage_vars, previous_result, other_pass, oui_database, detector_vars>>
outside_detector ==
   <<topology_vars, coverage_vars, previous_result, other_pass, oui_database, venn_vars>>

NoResult == [type |-> "none"]
NoZones == [primary |-> <<>>, secondary |-> <<>>, tertiary |-> <<>>, fringe |-> <<>>]

TopologyIdle ==
   /\ same_ssid_aps = <<>>
   /\ idx = 1
   /\ mesh_nodes = <<>>
   /\ standalone_aps = <<>>
   /\ result = NoResult

NoPass == [pc |-> "idle", aps |-> <<>>, idx |-> 1, nodes |-> <<>>,
           standalone |-> <<>>, result |-> NoResult]

VennIdle ==
   /\ nodes_data = <<>>
   /\ venn_data = NoResult
   /\ assessment = NoResult
   /\ overlap_call = NoResult

\* MeshIntelligence(): the table is set, nothing else is held
InstanceFresh ==
   /\ oui_database = oui_database_literal
   /\ previous_result = NoResult
   /\ other_pass = NoPass

CoverageIdle ==
   /\ sorted_signals = <<>>
   /\ signal_gaps = <<>>
   /\ zones = NoZones
   /\ coverage_issues = <<>>
   /\ coverage_analysis = NoResult

\* the value None of a local that holds a dict, of one that holds a BSSID
\* and of one that holds a time; as a condition the last two count as false,
\* as the empty string and 0 do
None == [status |-> "None"]
NoBssid == <<>>
NoTime == 0

\* no MeshRoamingDetector is at work: nothing monitored, nothing logged
DetectorIdle ==
   /\ now = 1
   /\ monitoring = FALSE
   /\ events = <<>>
   /\ thread = "none"
   /\ last_state = None
   /\ last_bssid = NoBssid
   /\ disconnect_start = NoTime
   /\ log = <<>>
   /\ last_event_count = 0
   /\ pending = <<>>

(***************************************************************************)
(* analyze_mesh_topology                                                   *)
(***************************************************************************)
Init ==
   /\ pc = "scan"
   /\ TopologyIdle
   /\ CoverageIdle
   /\ InstanceFresh
   /\ VennIdle
   /\ DetectorIdle

\* the scan collaborator adds one observation of the SSID group
ScanObservation ==
   /\ pc = "scan"
   /\ Len(same_ssid_aps) < MaxAps
   /\ \E ap \in ScanPool :
         /\ \A k \in DOMAIN same_ssid_aps : same_ssid_aps[k].bssid # ap.bssid
         /\ same_ssid_aps' = Append(same_ssid_aps, ap)
   /\ UNCHANGED <<pc, idx, mesh_nodes, standalone_aps, result, outside_topology>>

\* the caller hands the scanned group to analyze_mesh_topology
CallAnalyze ==
   /\ pc = "scan"
   /\ pc' = "call"
   /\ UNCHANGED <<topology_vars, outside_topology>>

\* the caller hands over one of the given lists
CallAnalyzeGiven ==
   /\ pc = "scan"
   /\ same_ssid_aps = <<>>
   /\ same_ssid_aps' \in GivenLists
   /\ pc' = "call"
   /\ UNCHANGED <<idx, mesh_nodes, standalone_aps, result, outside_topology>>

\* len(same_ssid_aps) <= 1: the single-AP return
SingleAp ==
   /\ pc = "call"
   /\ Len(same_ssid_aps) <= 1
   /\ result' = SingleApResult(same_ssid_aps)
   /\ pc' = "done"
   /\ UNCHANGED <<same_ssid_aps, idx, mesh_nodes, standalone_aps, outside_topology>>

Radio(ap) ==
   [bssid |-> ap.bssid, freq |-> ap.freq, signal |-> ap.signal,
    band |-> _determine_band(ap.freq)]

\* positions of mesh_nodes whose key is base_mac (at most one)
NodesWithBase(nodes, base_mac) == {k \in DOMAIN nodes : nodes[k].base_mac = base_mac}

\* OpensMeshNode without the count of observations sharing the base_mac
OpensMeshNode_NoCount(nodes, aps, base_mac) ==
   \E k \in DOMAIN nodes :
      _is_likely_same_mesh_system(<<base_mac, nodes[k].base_mac>>)

\* the condition of line 1758 under which a new base_mac opens a mesh node
OpensMeshNode(nodes, aps, base_mac) ==
   LET is_mesh_node ==
          \E k \in DOMAIN nodes :
             _is_likely_same_mesh_system(<<base_mac, nodes[k].base_mac>>)
       same_base == Cardinality({j \in DOMAIN aps : BaseMac(aps[j].bssid) = base_mac})
   IN  is_mesh_node \/ same_base > 1

\* one iteration of the clustering loop, on ap = same_ssid_aps[idx]
ClusterObservation(nodes, standalone, aps, ap) ==
   LET base_mac == BaseMac(ap.bssid)
       here == NodesWithBase(nodes, base_mac)
   IN  IF here # {}
       THEN LET k == CHOOSE k \in here : TRUE
            IN  [nodes |-> [nodes EXCEPT
                    ![k].radios = Append(@, Radio(ap)),
                    ![k].bands = @ \cup {_determine_band(ap.freq)},
                    ![k].strongest_signal = IF ap.signal > @ THEN ap.signal ELSE @],
                 standalone |-> standalone]
       ELSE IF OpensMeshNode(nodes, aps, base_mac)
       THEN [nodes |-> Append(nodes,
                         [base_mac |-> base_mac,
                          radios |-> <<Radio(ap)>>,
                          bands |-> {_determine_band(ap.freq)},
                          strongest_signal |-> ap.signal]),
             standalone |-> standalone]
       ELSE [nodes |-> nodes, standalone |-> Append(standalone, ap)]

ClusterStep ==
   /\ pc = "call"
   /\ Len(same_ssid_aps) > 1
   /\ idx <= Len(same_ssid_aps)
   /\ LET after == ClusterObservation(mesh_nodes, standalone_aps, same_ssid_aps,
                                      same_ssid_aps[idx])
      IN  /\ mesh_nodes' = after.nodes
          /\ standalone_aps' = after.standalone
   /\ idx' = idx + 1
   /\ UNCHANGED <<pc, same_ssid_aps, result, outside_topology>>

\* every way list(node['bands']) can order each node's band set
BandListings(nodes) ==
   {f \in [DOMAIN nodes -> UNION {SeqsOfSet(nodes[k].bands) : k \in DOMAIN nodes}] :
       \A k \in DOMAIN nodes : f[k] \in SeqsOfSet(nodes[k].bands)}

\* _analyze_mesh_system, given the serialized node list, when nothing raises
_analyze_mesh_system(nodes, listed_nodes, aps) ==
   LET total_nodes == Len(nodes)
       brand == identify_mesh_brand([k \in DOMAIN aps |-> aps[k].bssid])
       all_bands == UNION {nodes[k].bands : k \in DOMAIN nodes}
       mesh_type == IF Cardinality(all_bands) >= 3 THEN "tri_band"
                    ELSE IF Cardinality(all_bands) = 2 THEN "dual_band"
                    ELSE "single_band"
       signals == [k \in DOMAIN nodes |-> nodes[k].strongest_signal]
       sorted == SortedDesc(signals)
       signal_range == MaxOf(Range(signals)) - MinOf(Range(signals))
       coverage == _perform_spatial_coverage_analysis(sorted)
   IN  [type |-> "mesh",
        brand |-> IF brand = "None" THEN "unknown" ELSE brand,
        mesh_type |-> mesh_type,
        total_nodes |-> total_nodes,
        total_radios |-> Len(aps),
        bands |-> SortedBands(all_bands),
        signal_range |-> signal_range,
        mesh_nodes |-> listed_nodes,
        signal_distribution |-> sorted,
        coverage_analysis |-> coverage,
        topology_health |-> coverage.topology_classification,
        coverage_health |-> coverage.spatial_distribution,
        coverage_details |->
           [signal_range |-> signal_range,
            strongest_node |-> MaxOf(Range(signals)),
            weakest_node |-> MinOf(Range(signals)),
            total_nodes |-> total_nodes,
            radios_per_node |-> <<Len(aps), total_nodes>>]]

\* the loop is over and mesh_nodes is non-empty: return self._analyze_mesh_system(...)
AnalyzeMeshSystem ==
   /\ pc = "call"
   /\ Len(same_ssid_aps) > 1
   /\ idx > Len(same_ssid_aps)
   /\ mesh_nodes # <<>>
   /\ LET signals == [k \in DOMAIN mesh_nodes |-> mesh_nodes[k].strongest_signal]
      IN  IF AssessRaises(SignalGaps(SortedDesc(signals)))
          THEN /\ pc' = "raised"
               /\ UNCHANGED <<mesh_nodes, result>>
          ELSE \E listing \in BandListings(mesh_nodes) :
                  /\ mesh_nodes' = [k \in DOMAIN mesh_nodes |->
                                      [mesh_nodes[k] EXCEPT !.bands = listing[k]]]
                  /\ result' = _analyze_mesh_system(mesh_nodes, mesh_nodes', same_ssid_aps)
                  /\ pc' = "done"
   /\ UNCHANGED <<same_ssid_aps, idx, standalone_aps, outside_topology>>

\* the loop is over and mesh_nodes is empty: return self._analyze_multiple_aps(...)
AnalyzeMultipleAps ==
   /\ pc = "call"
   /\ Len(same_ssid_aps) > 1
   /\ idx > Len(same_ssid_aps)
   /\ mesh_nodes = <<>>
   /\ result' = _analyze_multiple_aps(same_ssid_aps)
   /\ pc' = "done"
   /\ UNCHANGED <<same_ssid_aps, idx, mesh_nodes, standalone_aps, outside_topology>>

\* the clustering loop run over the first n observations of aps
RECURSIVE ClusterUpTo(_, _)
ClusterUpTo(aps, n) ==
   IF n = 0 THEN [nodes |-> <<>>, standalone |-> <<>>]
   ELSE LET before == ClusterUpTo(aps, n - 1)
        IN  ClusterObservation(before.nodes, before.standalone, aps, aps[n])

\* lines 1775-1780: every way the call can end once its loop is over
ReturnAfterLoop(aps, nodes, standalone) ==
   LET signals == [k \in DOMAIN nodes |-> nodes[k].strongest_signal]
   IN  IF nodes = <<>>
       THEN {[pc |-> "done", result |-> _analyze_multiple_aps(aps),
              nodes |-> <<>>, standalone |-> standalone]}
       ELSE IF AssessRaises(SignalGaps(SortedDesc(signals)))
       THEN {[pc |-> "raised", result |-> NoResult,
              nodes |-> nodes, standalone |-> standalone]}
       ELSE {LET listed == [k \in DOMAIN nodes |->
                              [nodes[k] EXCEPT !.bands = listing[k]]]
             IN  [pc |-> "done",
                  result |-> _analyze_mesh_system(nodes, listed, aps),
                  nodes |-> listed, standalone |-> standalone]
             : listing \in BandListings(nodes)}

\* every way one whole call analyze_mesh_topology(aps) can end, with the
\* locals mesh_nodes and standalone_aps it ends with
analyze_mesh_topology(aps) ==
   IF Len(aps) <= 1
   THEN {[pc |-> "done", result |-> SingleApResult(aps),
          nodes |-> <<>>, standalone |-> <<>>]}
   ELSE LET loop == ClusterUpTo(aps, Len(aps))
        IN  ReturnAfterLoop(aps, loop.nodes, loop.standalone)

\* the tool is run once more on the identical observation list: a run of its
\* own, in an interpreter process of its own, whose call is taken as a whole
Rerun ==
   /\ pc = "done"
   /\ previous_result = NoResult
   /\ previous_result' = result
   /\ \E end \in analyze_mesh_topology(same_ssid_aps) :
         /\ pc' = end.pc
         /\ result' = end.result
         /\ mesh_nodes' = end.nodes
         /\ standalone_aps' = end.standalone
   /\ UNCHANGED <<same_ssid_aps, idx, coverage_vars, other_pass, oui_database, venn_vars,
                  detector_vars>>

Next ==
   \/ ScanObservation \/ CallAnalyze \/ CallAnalyzeGiven
   \/ SingleAp \/ ClusterStep \/ AnalyzeMeshSystem \/ AnalyzeMultipleAps

Spec == Init /\ [][Next]_vars

\* the tool run on a scan, and run again on the same scan
NextRerun == Next \/ Rerun

\* analyze_mesh_topology is called once more on the observations of a given
\* list, handed over in any order; the call is taken as a whole
RerunPermuted ==
   /\ pc = "done"
   /\ same_ssid_aps \in GivenLists
   /\ previous_result = NoResult
   /\ previous_result' = result
   /\ \E permuted \in SeqsOfSet(Range(same_ssid_aps)) :
         /\ same_ssid_aps' = permuted
         /\ \E end \in analyze_mesh_topology(permuted) :
               /\ pc' = end.pc
               /\ result' = end.result
               /\ mesh_nodes' = end.nodes
               /\ standalone_aps' = end.standalone
   /\ UNCHANGED <<idx, coverage_vars, other_pass, oui_database, venn_vars, detector_vars>>

\* the tool run on a scan, and on the same scan in another order
NextReorder == Next \/ RerunPermuted

SpecReorder == Init /\ [][NextReorder]_vars

SpecRerun == Init /\ [][NextRerun]_vars

(***************************************************************************)
(* A second pass of analyze_mesh_topology on the same MeshIntelligence     *)
(* instance, with locals of its own, interleaved with the first step by    *)
(* step.                                                                   *)
(***************************************************************************)
outside_other_pass ==
   <<pc, topology_vars, coverage_vars, previous_result, oui_database, venn_vars,
     detector_vars>>

\* the lists of the second pass: the empty list, one observation, and groups
\* that end as mesh, as multiple_aps and in the exception
PassLists ==
   FreqLists \cup {ScenarioB, Unrelated, <<>>, <<APScan(E01, 2437, -60)>>}
             \cup {l \in BrandLists : l[1].bssid = E01}

\* the second pass is entered with one of its lists
OtherCall ==
   /\ other_pass.pc = "idle"
   /\ \E aps \in PassLists : other_pass' = [NoPass EXCEPT !.pc = "call", !.aps = aps]
   /\ UNCHANGED outside_other_pass

\* OtherClusterStep with the node map kept where the first pass keeps its own
OtherClusterStep_Shared ==
   /\ other_pass.pc = "call"
   /\ Len(other_pass.aps) > 1
   /\ other_pass.idx <= Len(other_pass.aps)
   /\ LET after == ClusterObservation(mesh_nodes, other_pass.standalone,
                                      other_pass.aps, other_pass.aps[other_pass.idx])
      IN  /\ mesh_nodes' = after.nodes
          /\ other_pass' = [other_pass EXCEPT !.nodes = after.nodes,
                                              !.standalone = after.standalone,
                                              !.idx = @ + 1]
   /\ UNCHANGED <<pc, same_ssid_aps, idx, standalone_aps, result, coverage_vars,
                  previous_result, oui_database, venn_vars, detector_vars>>

\* one iteration of the second pass's clustering loop
OtherClusterStep ==
   /\ other_pass.pc = "call"
   /\ Len(other_pass.aps) > 1
   /\ other_pass.idx <= Len(other_pass.aps)
   /\ LET after == ClusterObservation(other_pass.nodes, other_pass.standalone,
                                      other_pass.aps, other_pass.aps[other_pass.idx])
      IN  other_pass' = [other_pass EXCEPT !.nodes = after.nodes,
                                           !.standalone = after.standalone,
                                           !.idx = @ + 1]
   /\ UNCHANGED outside_other_pass

\* the second pass returns, or raises
OtherReturn ==
   /\ other_pass.pc = "call"
   /\ IF Len(other_pass.aps) <= 1
      THEN other_pass' = [other_pass EXCEPT !.pc = "done",
                                            !.result = SingleApResult(other_pass.aps)]
      ELSE /\ other_pass.idx > Len(other_pass.aps)
           /\ \E end \in ReturnAfterLoop(other_pass.aps, other_pass.nodes,
                                         other_pass.standalone) :
                 other_pass' = [other_pass EXCEPT !.pc = end.pc,
                                                  !.result = end.result,
                                                  !.nodes = end.nodes]
   /\ UNCHANGED outside_other_pass

NextPasses ==
   \/ CallAnalyzeGiven \/ SingleAp \/ ClusterStep \/ AnalyzeMeshSystem \/ AnalyzeMultipleAps
   \/ OtherCall \/ OtherClusterStep \/ OtherReturn

SpecPasses == Init /\ [][NextPasses]_vars

(***************************************************************************)
(* _perform_spatial_coverage_analysis, called on its own                   *)
(***************************************************************************)
InitCoverage ==
   /\ pc = "input"
   /\ CoverageIdle
   /\ TopologyIdle
   /\ InstanceFresh
   /\ VennIdle
   /\ DetectorIdle

\* the caller's sorted(signals, reverse=True) list grows by one node signal,
\* never above the signal before it
AddNodeSignal ==
   /\ pc = "input"
   /\ Len(sorted_signals) < MaxNodes
   /\ \E s \in CoverageSignals :
         /\ IF sorted_signals = <<>> THEN TRUE
            ELSE s <= sorted_signals[Len(sorted_signals)]
         /\ sorted_signals' = Append(sorted_signals, s)
   /\ UNCHANGED <<pc, signal_gaps, zones, coverage_issues, coverage_analysis, outside_coverage>>

\* _perform_spatial_coverage_analysis is entered with at least one node signal
CallCoverage ==
   /\ pc = "input"
   /\ sorted_signals # <<>>
   /\ pc' = "gaps"
   /\ UNCHANGED <<coverage_vars, outside_coverage>>

ComputeGaps ==
   /\ pc = "gaps"
   /\ signal_gaps' = SignalGaps(sorted_signals)
   /\ pc' = "zones"
   /\ UNCHANGED <<sorted_signals, zones, coverage_issues, coverage_analysis, outside_coverage>>

ClassifyZones ==
   /\ pc = "zones"
   /\ zones' = _classify_coverage_zones(sorted_signals)
   /\ pc' = "issues"
   /\ UNCHANGED <<sorted_signals, signal_gaps, coverage_issues, coverage_analysis, outside_coverage>>

DetectIssues ==
   /\ pc = "issues"
   /\ coverage_issues' = _detect_coverage_issues(sorted_signals, signal_gaps, zones)
   /\ pc' = "assess"
   /\ UNCHANGED <<sorted_signals, signal_gaps, zones, coverage_analysis, outside_coverage>>

AssessTopology ==
   /\ pc = "assess"
   /\ IF AssessRaises(signal_gaps)
      THEN /\ pc' = "raised"
           /\ UNCHANGED coverage_analysis
      ELSE /\ coverage_analysis' = _perform_spatial_coverage_analysis(sorted_signals)
           /\ pc' = "done"
   /\ UNCHANGED <<sorted_signals, signal_gaps, zones, coverage_issues, outside_coverage>>

NextCoverage ==
   \/ AddNodeSignal \/ CallCoverage
   \/ ComputeGaps \/ ClassifyZones \/ DetectIssues \/ AssessTopology

SpecCoverage == InitCoverage /\ [][NextCoverage]_vars

(***************************************************************************)
(* MeshVennCalculator: generate_venn_data and get_overlap_quality_         *)
(* assessment as _generate_mesh_report calls them, and                     *)
(* calculate_overlap_percentage called on two nodes of its own.            *)
(***************************************************************************)
InitVenn ==
   /\ pc = "nodes"
   /\ TopologyIdle
   /\ CoverageIdle
   /\ InstanceFresh
   /\ VennIdle
   /\ DetectorIdle

NodeLabels == <<"Node 1", "Node 2", "Node 3", "Node 4", "Node 5", "Node 6", "Node 7">>

\* _process_mesh_nodes appends one node
AddVennNode ==
   /\ pc = "nodes"
   /\ Len(nodes_data) < MaxNodes
   /\ \E s \in VennSignals :
         nodes_data' = Append(nodes_data,
                              [label |-> NodeLabels[Len(nodes_data) + 1], signal |-> s])
   /\ UNCHANGED <<pc, venn_data, assessment, overlap_call, outside_venn>>

\* venn_data = self.venn_calc.generate_venn_data(nodes_data)
GenerateVennData ==
   /\ pc = "nodes"
   /\ venn_data' = generate_venn_data(nodes_data)
   /\ pc' = "venn"
   /\ UNCHANGED <<nodes_data, assessment, overlap_call, outside_venn>>

\* overlap_assessment = self.venn_calc.get_overlap_quality_assessment(venn_data)
AssessOverlapQuality ==
   /\ pc = "venn"
   /\ assessment' = get_overlap_quality_assessment(venn_data)
   /\ pc' = "assessed"
   /\ UNCHANGED <<nodes_data, venn_data, overlap_call, outside_venn>>

\* calculate_overlap_percentage(node1, node2) on two nodes of any signals
CallOverlap ==
   /\ pc = "nodes"
   /\ nodes_data = <<>>
   /\ \E s1, s2 \in CallSignals, p \in CallPositions :
         LET node1 == [label |-> NodeLabels[1], signal |-> s1,
                       position |-> Position(p[1] * Cell, p[2] * Cell)]
             node2 == [label |-> NodeLabels[2], signal |-> s2,
                       position |-> Position(p[3] * Cell, p[4] * Cell)]
         IN  /\ overlap_call' = [node1 |-> node1,
                                  node2 |-> node2,
                                  r1 |-> calculate_coverage_radius(s1),
                                  r2 |-> calculate_coverage_radius(s2),
                                  line |-> OverlapReturn(node1, node2),
                                  value |-> IF OverlapRaises(node1, node2)
                                            THEN "ZeroDivisionError"
                                            ELSE calculate_overlap_percentage(node1, node2)]
             /\ pc' = IF OverlapRaises(node1, node2) THEN "raised" ELSE "overlap"
   /\ UNCHANGED <<nodes_data, venn_data, assessment, outside_venn>>

NextVenn == AddVennNode \/ GenerateVennData \/ AssessOverlapQuality \/ CallOverlap

SpecVenn == InitVenn /\ [][NextVenn]_vars

(***************************************************************************)
(* MeshRoamingDetector (mesh_roaming_detector.py): the monitoring thread   *)
(* monitor_connection_state, started by detect_microdropouts and by        *)
(* continuous_quality_monitor, and the logging loop of the latter.  A      *)
(* thread step is one iteration of the thread's while loop; the logging    *)
(* loop is cut at the points where the thread can run in between: after    *)
(* the snapshot list(self.events), after each line written, and before     *)
(* len(self.events) is read at line 360.                                   *)
(***************************************************************************)
\* deque(maxlen=1000), scaled down
maxlen == 2
\* most events the thread appends in one session
MaxEvents == 3
\* last tick of the clock
MaxTime == 2

\* dict.get(key, default)
Get(dict, key, default) == IF key \in DOMAIN dict THEN dict[key] ELSE default

\* the values _get_connection_state_fast returns
Connected(bssid, signal) == [status |-> "connected", signal |-> signal, bssid |-> bssid]
Disconnected == [status |-> "disconnected"]
Unknown == [status |-> "unknown"]
_get_connection_state_fast == {Connected(B30, -45), Connected(C30, -60), Disconnected, Unknown}

\* deque.append on a deque of maxlen items drops the oldest one
DequeAppend(deque, item) ==
   IF Len(deque) >= maxlen THEN Append(Tail(deque), item) ELSE Append(deque, item)

\* the identity of the next event dict: events are numbered as they are made
NextEvent == IF events = <<>> THEN 1 ELSE events[Len(events)].id + 1

\* MeshRoamingDetector(interface)
InitDetector ==
   /\ pc = "detector"
   /\ TopologyIdle
   /\ CoverageIdle
   /\ InstanceFresh
   /\ VennIdle
   /\ DetectorIdle

\* time passes
Tick ==
   /\ now < MaxTime
   /\ now' = now + 1
   /\ UNCHANGED <<pc, monitor_vars, logger_vars, outside_detector>>

\* lines 27-30: the thread enters monitor_connection_state
MonitorEnter ==
   /\ thread = "started"
   /\ monitoring' = TRUE
   /\ last_state' = None
   /\ last_bssid' = NoBssid
   /\ disconnect_start' = NoTime
   /\ thread' = "loop"
   /\ UNCHANGED <<pc, now, events, logger_vars, outside_detector>>

\* the reconnection test of lines 53-54; the sampled states are dicts, so
\* last_state == "disconnected" is never met
ReconnectTest(state, current_status) ==
   /\ Get(state, "status", "None") = "disconnected"
   /\ current_status = "connected"

\* lines 34-85: one iteration of the loop of monitor_connection_state; the
\* session sees at most MaxEvents changes of the connection
MonitorSample ==
   /\ thread = "loop"
   /\ monitoring
   /\ \E state \in _get_connection_state_fast :
         LET current_status == Get(state, "status", "unknown")
             current_bssid == Get(state, "bssid", NoBssid)
             current_signal == Get(state, "signal", -100)
             last_connected == Get(last_state, "status", "None") = "connected"
         IN  /\ IF last_connected /\ current_status = "disconnected"
                THEN /\ disconnect_start' = now
                     /\ events' = DequeAppend(events,
                                      [id |-> NextEvent,
                                       type |-> "disconnect",
                                       timestamp |-> now,
                                       last_bssid |-> last_bssid,
                                       last_signal |-> Get(last_state, "signal", -100)])
                ELSE IF ReconnectTest(last_state, current_status)
                THEN /\ events' = DequeAppend(events,
                                      [id |-> NextEvent,
                                       type |-> "reconnect",
                                       timestamp |-> now,
                                       downtime_seconds |->
                                          IF disconnect_start # NoTime
                                          THEN now - disconnect_start ELSE 0,
                                       new_bssid |-> current_bssid,
                                       new_signal |-> current_signal])
                     /\ disconnect_start' = NoTime
                ELSE IF /\ current_status = "connected"
                        /\ last_connected
                        /\ last_bssid # NoBssid /\ current_bssid # NoBssid
                        /\ last_bssid # current_bssid
                THEN /\ events' = DequeAppend(events,
                                      [id |-> NextEvent,
                                       type |-> "roam",
                                       timestamp |-> now,
                                       from_bssid |-> last_bssid,
                                       to_bssid |-> current_bssid,
                                       from_signal |-> Get(last_state, "signal", -100),
                                       to_signal |-> current_signal,
                                       seamless |-> TRUE])
                     /\ UNCHANGED disconnect_start
                ELSE UNCHANGED <<events, disconnect_start>>
             /\ events' # events => NextEvent <= MaxEvents
             /\ last_state' = state
             /\ last_bssid' = current_bssid
   /\ UNCHANGED <<pc, now, monitoring, thread, logger_vars, outside_detector>>

\* line 32: the loop ends once monitoring is False
MonitorExit ==
   /\ thread = "loop"
   /\ ~monitoring
   /\ thread' = "ended"
   /\ UNCHANGED <<pc, now, monitoring, events, last_state, last_bssid, disconnect_start,
                  logger_vars, outside_detector>>

\* detect_microdropouts, lines 174-181: the events are cleared and the
\* thread is started
StartMicrodropouts ==
   /\ pc = "detector"
   /\ events' = <<>>
   /\ thread' = "started"
   /\ pc' = "monitoring"
   /\ UNCHANGED <<now, monitoring, last_state, last_bssid, disconnect_start,
                  logger_vars, outside_detector>>

\* line 184, after the sleep: self.monitoring = False
StopMonitoring ==
   /\ pc = "monitoring"
   /\ monitoring' = FALSE
   /\ pc' = "joining"
   /\ UNCHANGED <<now, events, thread, last_state, last_bssid, disconnect_start,
                  logger_vars, outside_detector>>

\* monitor_thread.join() returns once the thread has ended
JoinThread ==
   /\ pc = "joining"
   /\ thread = "ended"
   /\ pc' = "joined"
   /\ UNCHANGED <<detector_vars, outside_detector>>

NextMonitor ==
   \/ StartMicrodropouts \/ MonitorEnter \/ MonitorSample \/ MonitorExit
   \/ Tick \/ StopMonitoring \/ JoinThread

SpecMonitor == InitDetector /\ [][NextMonitor]_vars

\* the line continuous_quality_monitor writes for an event: the time of day
\* of its timestamp and the fields its type shows
Message(event) ==
   [event |-> event.id,
    text |-> IF event.type = "disconnect"
             THEN <<event.timestamp, ": CONNECTION LOST from ",
                    Get(event, "last_bssid", "unknown")>>
             ELSE IF event.type = "reconnect"
             THEN <<event.timestamp, ": RECONNECTED to ", Get(event, "new_bssid", "unknown"),
                    " (down ", Get(event, "downtime_seconds", 0), "s)">>
             ELSE <<event.timestamp, ": ROAMED ", event.from_bssid, " -> ", event.to_bssid,
                    " (", event.to_signal - event.from_signal, "dBm)">>]

\* continuous_quality_monitor, lines 311-332: the session header is written,
\* the events are cleared, the thread is started
LoggerStart ==
   /\ pc = "detector"
   /\ log' = <<[event |-> 0, text |-> <<now, "--- Roaming Monitor Session Started ---">>]>>
   /\ events' = <<>>
   /\ thread' = "started"
   /\ last_event_count' = 0
   /\ pc' = "sleep"
   /\ UNCHANGED <<now, monitoring, last_state, last_bssid, disconnect_start, pending,
                  outside_detector>>

\* lines 334-338: after the sleep, with more events than were counted, the
\* for loop starts on list(self.events)[last_event_count:]
LoggerWake ==
   /\ pc = "sleep"
   /\ Len(events) > last_event_count
   /\ pending' = SubSeq(events, last_event_count + 1, Len(events))
   /\ pc' = "write"
   /\ UNCHANGED <<now, monitor_vars, log, last_event_count, outside_detector>>

\* lines 339-358: one event of the for loop is written and flushed
LoggerWrite ==
   /\ pc = "write"
   /\ pending # <<>>
   /\ log' = Append(log, Message(Head(pending)))
   /\ pending' = Tail(pending)
   /\ UNCHANGED <<pc, now, monitor_vars, last_event_count, outside_detector>>

\* line 360, after the for loop: last_event_count = len(self.events)
LoggerMark ==
   /\ pc = "write"
   /\ pending = <<>>
   /\ last_event_count' = Len(events)
   /\ pc' = "sleep"
   /\ UNCHANGED <<now, monitor_vars, log, pending, outside_detector>>

\* lines 362-364: Ctrl+C ends the session
LoggerInterrupt ==
   /\ pc \in {"sleep", "write"}
   /\ monitoring' = FALSE
   /\ pending' = <<>>
   /\ pc' = "joining"
   /\ UNCHANGED <<now, events, thread, last_state, last_bssid, disconnect_start,
                  log, last_event_count, outside_detector>>

NextLogger ==
   \/ LoggerStart \/ MonitorEnter \/ MonitorSample \/ MonitorExit \/ Tick
   \/ LoggerWake \/ LoggerWrite \/ LoggerMark \/ LoggerInterrupt \/ JoinThread

\* the logging loop is the main thread's 'while True' and is always scheduled
\* again; nothing obliges the thread to see an event or the user to interrupt
SpecLogger ==
   /\ InitDetector
   /\ [][NextLogger]_vars
   /\ WF_vars(LoggerWake)
   /\ WF_vars(LoggerWrite)
   /\ WF_vars(LoggerMark)

(***************************************************************************)
(* Properties.                                                             *)
(***************************************************************************)
\* the call of analyze_mesh_topology has ended, by a return or by an exception
Ended == pc \in {"done", "raised"}

\* observations of a list as a bag, each counted as often as it occurs
BagOfList(l) == [x \in Range(l) |-> Cardinality({k \in DOMAIN l : l[k] = x})]

RECURSIVE Flatten(_)
Flatten(ls) == IF ls = <<>> THEN <<>> ELSE ls[1] \o Flatten(Tail(ls))

\* the radios held by all mesh nodes, as observations, and the standalone list
PlacedInNodes ==
   Flatten([k \in DOMAIN mesh_nodes |->
              [j \in DOMAIN mesh_nodes[k].radios |->
                 APScan(mesh_nodes[k].radios[j].bssid, mesh_nodes[k].radios[j].freq,
                        mesh_nodes[k].radios[j].signal)]])

LoopOver == Len(same_ssid_aps) >= 2 /\ pc # "scan" /\ idx > Len(same_ssid_aps)

SharedBase == \E a, b \in DOMAIN same_ssid_aps :
                 a # b /\ BaseMac(same_ssid_aps[a].bssid) = BaseMac(same_ssid_aps[b].bssid)

\* C1: analyze_mesh_topology never ends in an exception, and what it returns
\* has type single_ap, multiple_aps or mesh, whatever the observation list.
C1_NeverRaises ==
   /\ pc # "raised"
   /\ pc = "done" => result.type \in {"single_ap", "multiple_aps", "mesh"}

\* C2: on Scenario B (BSSIDs ..:30, ..:31, ..:40, ..:41, signals -40, -45,
\* -68, -70) the call returns type mesh with exactly two mesh nodes of two
\* radios each, the :30/:31 pair and the :40/:41 pair, and mesh_type dual_band.
C2_ScenarioB ==
   (same_ssid_aps = ScenarioB /\ Ended) =>
      /\ pc = "done"
      /\ result.type = "mesh"
      /\ result.total_nodes = 2
      /\ Len(result.mesh_nodes) = 2
      /\ \A k \in DOMAIN result.mesh_nodes : Len(result.mesh_nodes[k].radios) = 2
      /\ \E k \in DOMAIN result.mesh_nodes :
            {result.mesh_nodes[k].radios[j].bssid : j \in 1..2} = {B30, B31}
      /\ \E k \in DOMAIN result.mesh_nodes :
            {result.mesh_nodes[k].radios[j].bssid : j \in 1..2} = {B40, B41}
      /\ result.mesh_type = "dual_band"

\* C3: after the clustering loop over two or more observations, the node
\* radio lists and the standalone list together hold every observation exactly
\* once, every radio of a node has the node's base identifier, no two nodes
\* share a base identifier, and observations with equal base identifiers are
\* radios of the same node, none of them standalone.
C3_ClusteringPartitions ==
   LoopOver =>
      /\ BagOfList(PlacedInNodes \o standalone_aps) = BagOfList(same_ssid_aps)
      /\ \A k \in DOMAIN mesh_nodes :
            \A j \in DOMAIN mesh_nodes[k].radios :
               BaseMac(mesh_nodes[k].radios[j].bssid) = mesh_nodes[k].base_mac
      /\ \A k, h \in DOMAIN mesh_nodes :
            mesh_nodes[k].base_mac = mesh_nodes[h].base_mac => k = h
      /\ \A a, b \in DOMAIN same_ssid_aps :
            (a # b /\ BaseMac(same_ssid_aps[a].bssid) = BaseMac(same_ssid_aps[b].bssid)) =>
               /\ \E k \in DOMAIN mesh_nodes :
                     /\ mesh_nodes[k].base_mac = BaseMac(same_ssid_aps[a].bssid)
                     /\ \E j \in DOMAIN mesh_nodes[k].radios :
                           mesh_nodes[k].radios[j].bssid = same_ssid_aps[a].bssid
                     /\ \E j \in DOMAIN mesh_nodes[k].radios :
                           mesh_nodes[k].radios[j].bssid = same_ssid_aps[b].bssid
               /\ \A j \in DOMAIN standalone_aps :
                     BaseMac(standalone_aps[j].bssid) # BaseMac(same_ssid_aps[a].bssid)

\* C3 witness: the loop is over with a two-radio node, a one-radio node and a
\* standalone observation.
C3_Witness ==
   /\ LoopOver
   /\ standalone_aps # <<>>
   /\ \E k \in DOMAIN mesh_nodes : Len(mesh_nodes[k].radios) = 2
   /\ \E k \in DOMAIN mesh_nodes : Len(mesh_nodes[k].radios) = 1

\* C4: for two or more observations the call returns type mesh if and only
\* if a mesh node was formed and multiple_aps otherwise, and a mesh node is
\* formed if and only if two observations share a base identifier.
C4_MeshIffSharedBase ==
   (Len(same_ssid_aps) >= 2 /\ Ended) =>
      /\ pc = "done"
      /\ result.type \in {"mesh", "multiple_aps"}
      /\ result.type = "mesh" <=> mesh_nodes # <<>>
      /\ mesh_nodes # <<>> <=> SharedBase

\* C5: on the empty list the call returns exactly {type: single_ap, nodes: 0},
\* without raising and without clustering.
C5_EmptyList ==
   (same_ssid_aps = <<>> /\ pc # "scan") =>
      /\ pc \in {"call", "done"}
      /\ mesh_nodes = <<>> /\ standalone_aps = <<>> /\ idx = 1
      /\ pc = "done" => result = [type |-> "single_ap", nodes |-> 0]

\* C5 witness: the call on the empty list has returned.
C5_Witness == same_ssid_aps = <<>> /\ pc = "done" /\ result.type = "single_ap"

\* _perform_spatial_coverage_analysis, called on its own, has returned
CoverageDone == pc = "done" /\ sorted_signals # <<>>

\* _classify_coverage_zones, called on its own, has returned
ZonesClassified == pc \in {"issues", "assess", "done", "raised"} /\ sorted_signals # <<>>

IssuesOfSeverity(sev) == Len(SelectSeq(coverage_issues, LAMBDA i : i.severity = sev))

\* the score formula of the specification, from the issues, zones and gaps
ExpectedScore ==
   LET sum == 100 - 25 * IssuesOfSeverity("high") - 15 * IssuesOfSeverity("medium")
                  - 5 * IssuesOfSeverity("low")
                  + (IF zones.secondary # <<>> THEN 10 ELSE 0)
                  + (IF \A k \in DOMAIN signal_gaps : signal_gaps[k] < 20 THEN 15 ELSE 0)
   IN  IF sum > 100 THEN 100 ELSE IF sum < 0 THEN 0 ELSE sum

\* C6: over two or more node signals the reported coverage_quality_score is
\* min(100, max(0, 100 - 25 H - 15 M - 5 L + 10 [secondary non-empty]
\* + 15 [max gap < 20])), hence within 0..100; five nodes at -45 dBm give a
\* node_clustering issue and a score of exactly 100.
C6_QualityScore ==
   CoverageDone =>
      /\ coverage_analysis.coverage_quality_score = ExpectedScore
      /\ coverage_analysis.coverage_quality_score \in 0..100
      /\ sorted_signals = <<-45, -45, -45, -45, -45>> =>
            /\ \E k \in DOMAIN coverage_issues : coverage_issues[k].type = "node_clustering"
            /\ coverage_analysis.coverage_quality_score = 100

\* C6 witness: an analysis whose sum of penalties and bonuses is below 0.
C6_Witness ==
   /\ CoverageDone
   /\ 25 * IssuesOfSeverity("high") + 15 * IssuesOfSeverity("medium") > 100
   /\ coverage_analysis.coverage_quality_score = 0

\* the decision table of the specification
ExpectedClassification(n, score, high, medium) ==
   IF high THEN "topology_issues"
   ELSE IF medium /\ n < 3 THEN "basic_topology"
   ELSE IF medium THEN "good_topology"
   ELSE IF n >= 4 /\ score > 85 THEN "excellent_topology"
   ELSE IF n >= 3 /\ score > 75 THEN "good_topology"
   ELSE "basic_topology"

\* C7: over n >= 2 node signals topology_classification is the label of the
\* decision table, read in priority order, for n, the reported score and the
\* presence of high- and medium-severity issues.
C7_DecisionTable ==
   CoverageDone =>
      coverage_analysis.topology_classification =
         ExpectedClassification(Len(sorted_signals),
                                coverage_analysis.coverage_quality_score,
                                IssuesOfSeverity("high") > 0,
                                IssuesOfSeverity("medium") > 0)

\* C7 witness: three nodes with a medium-severity issue and no high one.
C7_Witness ==
   /\ CoverageDone
   /\ Len(sorted_signals) = 3
   /\ IssuesOfSeverity("medium") > 0
   /\ IssuesOfSeverity("high") = 0
   /\ coverage_analysis.topology_classification = "good_topology"

\* C8: a signal s is put in primary exactly when s > -50 and in fringe exactly
\* when s < -80; every s with -80 <= s <= -50 is in secondary or tertiary.
C8_ZoneThresholds ==
   ZonesClassified =>
      \A s \in Range(sorted_signals) :
         /\ s \in Range(zones.primary) <=> s > -50
         /\ s \in Range(zones.fringe) <=> s < -80
         /\ (-80 <= s /\ s <= -50) =>
               s \in Range(zones.secondary) \cup Range(zones.tertiary)

\* C9: the four zone lists together hold every input signal exactly once,
\* with multiplicity: their lengths sum to the number of signals and no value
\* is in two zones.
C9_ZonesPartition ==
   ZonesClassified =>
      /\ Len(zones.primary) + Len(zones.secondary) + Len(zones.tertiary)
            + Len(zones.fringe) = Len(sorted_signals)
      /\ BagOfList(zones.primary \o zones.secondary \o zones.tertiary \o zones.fringe)
            = BagOfList(sorted_signals)
      /\ \A a, b \in {"primary", "secondary", "tertiary", "fringe"} :
            a # b => Range(zones[a]) \cap Range(zones[b]) = {}

\* C9 witness: a classified list with a signal in each of the four zones.
C9_Witness ==
   /\ ZonesClassified
   /\ zones.primary # <<>> /\ zones.secondary # <<>>
   /\ zones.tertiary # <<>> /\ zones.fringe # <<>>

\* the four signal-quality tiers as the specification states them
Tier(s) ==
   CASE s > -50 -> "excellent"
     [] -60 < s /\ s <= -50 -> "good"
     [] -75 < s /\ s <= -60 -> "fair"
     [] s <= -75 -> "poor"

\* C10: a single observation at signal s gives type single_ap, nodes = 1 and
\* the tier of s; a multiple_aps result has nodes = number of observations and
\* the tier of the maximum signal over all observations.
C10_SignalTiers ==
   /\ (pc = "done" /\ Len(same_ssid_aps) = 1) =>
         /\ result.type = "single_ap"
         /\ result.nodes = 1
         /\ result.signal_quality = Tier(same_ssid_aps[1].signal)
   /\ (pc = "done" /\ result.type = "multiple_aps") =>
         /\ result.nodes = Len(same_ssid_aps)
         /\ result.signal_quality =
               Tier(MaxOf({same_ssid_aps[k].signal : k \in DOMAIN same_ssid_aps}))

\* C10 witness: a multiple_aps result rated good whose first observation is
\* weaker than the strongest one.
C10_Witness ==
   /\ pc = "done"
   /\ result.type = "multiple_aps"
   /\ result.signal_quality = "good"
   /\ same_ssid_aps[1].signal < result.strongest_signal

\* analyze_mesh_topology has returned a mesh result
MeshReturned == pc = "done" /\ result.type = "mesh"

\* C15: every mesh result holds, besides type, brand, mesh_type, the counts,
\* the band list, signal_range and the node list, a coverage-analysis block
\* and a Venn/overlap-analysis block.
C15_MeshResultBlocks ==
   MeshReturned =>
      {"type", "brand", "mesh_type", "total_nodes", "total_radios", "bands",
       "signal_range", "mesh_nodes", "coverage_analysis", "venn_analysis"}
         \subseteq DOMAIN result

\* C16: in a mesh result total_nodes is the number of entries of mesh_nodes,
\* total_radios the sum of the lengths of the nodes' radio lists, and
\* signal_range the largest minus the smallest strongest_signal, at least 0.
C16_Aggregates ==
   MeshReturned =>
      LET nodes == result.mesh_nodes
          strongest == {nodes[k].strongest_signal : k \in DOMAIN nodes}
      IN  /\ result.total_nodes = Len(nodes)
          /\ result.total_radios = SumOf([k \in DOMAIN nodes |-> Len(nodes[k].radios)])
          /\ result.signal_range = MaxOf(strongest) - MinOf(strongest)
          /\ result.signal_range >= 0

\* brands of the table that list the OUI of a BSSID
BrandsOf(bssid) ==
   {k \in DOMAIN oui_database : SubSeq(bssid, 1, 3) \in Range(oui_database[k].ouis)}

ObservedBrands == UNION {BrandsOf(same_ssid_aps[k].bssid) : k \in DOMAIN same_ssid_aps}

\* C17 as stated: the brand of a mesh is 'unknown' exactly when no observed
\* OUI is in the table, and otherwise the earliest-declared brand among all
\* brands matched by any observed BSSID, whatever the scan order.
C17_EarliestDeclaredBrand ==
   MeshReturned =>
      /\ result.brand = "unknown" <=> ObservedBrands = {}
      /\ ObservedBrands # {} => result.brand = oui_database[MinOf(ObservedBrands)].brand

\* C17 amended: the brand of a mesh is 'unknown' exactly when no observed OUI
\* is in the table, and otherwise the brand of the first BSSID, in scan order,
\* whose OUI is in the table (the earliest-declared brand listing that OUI).
C17_FirstMatchingBssid ==
   MeshReturned =>
      /\ result.brand = "unknown" <=> ObservedBrands = {}
      /\ ObservedBrands # {} =>
            \E k \in DOMAIN same_ssid_aps :
               /\ BrandsOf(same_ssid_aps[k].bssid) # {}
               /\ \A j \in 1..(k - 1) : BrandsOf(same_ssid_aps[j].bssid) = {}
               /\ result.brand =
                     oui_database[MinOf(BrandsOf(same_ssid_aps[k].bssid))].brand

\* C17 witness: a mesh reported as google_nest although an eero radio, of the
\* earlier-declared brand, was observed later in the scan.
C17_Witness ==
   /\ MeshReturned
   /\ result.brand = "google_nest"
   /\ \E k \in DOMAIN same_ssid_aps : same_ssid_aps[k].bssid = E01

\* C18: in a mesh result every node's bands is a duplicate-free list in sorted
\* order, and the top-level bands list is sorted.
C18_BandsSorted ==
   MeshReturned =>
      /\ \A k \in DOMAIN result.mesh_nodes :
            result.mesh_nodes[k].bands = SortedBands(Range(result.mesh_nodes[k].bands))
      /\ result.bands = SortedBands(Range(result.bands))

\* the band ranges as the specification states them
BandOfFreq(freq) ==
   CASE freq \in 2400..2500 -> "2.4GHz"
     [] freq \in 5000..5999 -> "5GHz"
     [] freq \in 6000..7125 -> "6GHz"
     [] OTHER -> "other"

\* the clustering loop of a call on two or more observations is under way or over
Clustering == pc = "call" /\ Len(same_ssid_aps) >= 2

\* C20: after each observation the clustering loop has processed, every mesh
\* node has at least one radio, its strongest_signal is the maximum signal of
\* its radios, and its band set is exactly the set of the bands of its radios.
C20_MeshNodeInvariant ==
   Clustering =>
      \A k \in DOMAIN mesh_nodes :
         LET node == mesh_nodes[k] IN
         /\ Len(node.radios) >= 1
         /\ node.strongest_signal = MaxOf({node.radios[j].signal : j \in DOMAIN node.radios})
         /\ node.bands = {BandOfFreq(node.radios[j].freq) : j \in DOMAIN node.radios}

\* C20 witness: a node of three radios on three bands whose strongest radio
\* was not the first one processed.
C20_Witness ==
   /\ Clustering
   /\ \E k \in DOMAIN mesh_nodes :
         /\ Len(mesh_nodes[k].radios) = 3
         /\ Cardinality(mesh_nodes[k].bands) = 3
         /\ mesh_nodes[k].strongest_signal > mesh_nodes[k].radios[1].signal

\* the tool has been run twice on same_ssid_aps and both runs returned
RanTwice == pc = "done" /\ previous_result # NoResult

\* C14: two runs of analyze_mesh_topology on the identical observation list
\* return identical output in every field, the contents and the element order
\* of every list included.
C14_Determinism == RanTwice => result = previous_result

\* how a pass on aps can end when it runs alone
EndsAlone(aps) == {[pc |-> end.pc, result |-> end.result] : end \in analyze_mesh_topology(aps)}

\* what a step of either pass leaves as it was, and what a pass that ends ends with
PassFrame ==
   /\ oui_database' = oui_database
   /\ pc # "scan" => same_ssid_aps' = same_ssid_aps
   /\ other_pass.pc # "idle" => other_pass'.aps = other_pass.aps
   /\ pc' \in {"done", "raised"} =>
         [pc |-> pc', result |-> result'] \in EndsAlone(same_ssid_aps')
   /\ other_pass'.pc \in {"done", "raised"} =>
         [pc |-> other_pass'.pc, result |-> other_pass'.result] \in EndsAlone(other_pass'.aps)

\* C19: a pass of analyze_mesh_topology changes neither the OUI table nor its
\* observation list, and two passes over lists of their own, interleaved in
\* any way, each end as the pass ends when it runs alone.
C19_NoInterference == [][PassFrame]_vars

\* C19 witness: the first pass has returned a mesh result while the second
\* pass, on another list, is inside its clustering loop with a node opened.
C19_Witness ==
   /\ pc = "done"
   /\ result.type = "mesh"
   /\ other_pass.pc = "call"
   /\ other_pass.aps # same_ssid_aps
   /\ other_pass.idx > 1
   /\ other_pass.idx <= Len(other_pass.aps)
   /\ other_pass.nodes # <<>>

\* calculate_overlap_percentage has been called on two nodes and has returned
OverlapCalled == pc = "overlap"

\* generate_venn_data has returned
VennGenerated == pc \in {"venn", "assessed"}

\* C11: calculate_coverage_radius is monotonically non-decreasing in the
\* signal and always an integer of 40..120, for every integer signal, those
\* below -100 and above 0 included.
C11_RadiusMonotoneBounded ==
   /\ OverlapCalled =>
         /\ overlap_call.r1 \in 40..120
         /\ overlap_call.r2 \in 40..120
         /\ overlap_call.node1.signal <= overlap_call.node2.signal
               => overlap_call.r1 <= overlap_call.r2
   /\ VennGenerated =>
         \A i, j \in DOMAIN venn_data.nodes :
            /\ venn_data.nodes[i].radius \in 40..120
            /\ venn_data.nodes[i].signal <= venn_data.nodes[j].signal
                  => venn_data.nodes[i].radius <= venn_data.nodes[j].radius

\* C11 witness: a call on a node below -100 dBm, of radius 40, and a node
\* above 0 dBm, of radius 120.
C11_Witness ==
   /\ OverlapCalled
   /\ overlap_call.node1.signal < -100
   /\ overlap_call.r1 = 40
   /\ overlap_call.node2.signal > 0
   /\ overlap_call.r2 = 120

\* the square of the scaled centre distance d of the call, and the squares
\* of r1 + r2 and of r1 - r2, all in 1/10000
CallDistanceSquared ==
   LET dx == overlap_call.node2.position.x - overlap_call.node1.position.x
       dy == overlap_call.node2.position.y - overlap_call.node1.position.y
   IN  4 * 4 * (dx * dx + dy * dy)
CallSumSquared == (overlap_call.r1 + overlap_call.r2) * (overlap_call.r1 + overlap_call.r2) * 10000
CallDifferenceSquared == (overlap_call.r1 - overlap_call.r2) * (overlap_call.r1 - overlap_call.r2) * 10000

\* C12: calculate_overlap_percentage returns exactly 0 when d >= r1 + r2 and
\* exactly 100 * min(r1, r2)^2 / max(r1, r2)^2 when d <= |r1 - r2|, and goes
\* through the intersection/union formula only when |r1 - r2| < d < r1 + r2.
C12_OverlapBranches ==
   OverlapCalled =>
      LET apart == CallDistanceSquared >= CallSumSquared
          inside == CallDistanceSquared <= CallDifferenceSquared
          small == IF overlap_call.r1 < overlap_call.r2 THEN overlap_call.r1 ELSE overlap_call.r2
          large == IF overlap_call.r1 < overlap_call.r2 THEN overlap_call.r2 ELSE overlap_call.r1
      IN  /\ apart => overlap_call.value = 0
          /\ inside => overlap_call.value = (100 * 100 * small * small) \div (large * large)
          /\ overlap_call.line = 156 <=> ~apart /\ ~inside

\* C12 witness: two circles of different radii whose rims touch from inside,
\* d = |r1 - r2| > 0, returned by the enclosed-circle branch.
C12_Witness ==
   /\ OverlapCalled
   /\ overlap_call.r1 # overlap_call.r2
   /\ CallDistanceSquared = CallDifferenceSquared
   /\ overlap_call.line = 145

\* C13: with fewer than 2 nodes generate_venn_data returns no overlaps (and no
\* nodes for no input), and get_overlap_quality_assessment returns quality
\* single_node, score 100 and a description, for 0 nodes and for 1 node.
C13_FewerThanTwoNodes ==
   (VennGenerated /\ Len(nodes_data) < 2) =>
      /\ venn_data.overlaps = <<>>
      /\ Len(venn_data.nodes) = Len(nodes_data)
      /\ pc = "assessed" =>
            /\ assessment.quality = "single_node"
            /\ assessment.score = 100
            /\ assessment.description = <<"Single node - no overlap analysis needed">>

\* C13 witness: the assessment of the venn data of one node.
C13_Witness ==
   /\ pc = "assessed"
   /\ Len(nodes_data) = 1
   /\ Len(venn_data.nodes) = 1
   /\ assessment.quality = "single_node"

\* the issues have been detected by the coverage analysis in progress
IssuesDetected == pc \in {"assess", "done", "raised"} /\ sorted_signals # <<>>

\* positions in coverage_issues of the issues of one type
IssuesOfType(t) == {k \in DOMAIN coverage_issues : coverage_issues[k].type = t}

\* positions k of the consecutive pairs (k, k+1) of sorted_signals more than
\* 25 dB apart
LargeGaps ==
   {k \in 1..(Len(sorted_signals) - 1) : sorted_signals[k] - sorted_signals[k + 1] > 25}

\* C21: for a descending list of signals the detected issues hold exactly one
\* large_coverage_gap issue for each consecutive gap above 25 dB and none for
\* a gap of 25 dB or less; the issue is of severity high exactly when its gap
\* is above 35 dB and medium otherwise; the signals [-30, -85] give exactly
\* one such issue, of severity high, and the label topology_issues.
C21_LargeGapIssues ==
   /\ IssuesDetected =>
         /\ Cardinality(IssuesOfType("large_coverage_gap")) = Cardinality(LargeGaps)
         /\ \A k \in LargeGaps :
               \E i \in IssuesOfType("large_coverage_gap") :
                  /\ coverage_issues[i].details[2] = k
                  /\ coverage_issues[i].details[1] = sorted_signals[k] - sorted_signals[k + 1]
                  /\ coverage_issues[i].severity = "high"
                        <=> sorted_signals[k] - sorted_signals[k + 1] > 35
                  /\ coverage_issues[i].severity = "medium"
                        <=> sorted_signals[k] - sorted_signals[k + 1] <= 35
   /\ (IssuesDetected /\ sorted_signals = <<-30, -85>>) =>
         /\ Cardinality(IssuesOfType("large_coverage_gap")) = 1
         /\ \A i \in IssuesOfType("large_coverage_gap") : coverage_issues[i].severity = "high"
   /\ (pc = "done" /\ sorted_signals = <<-30, -85>>) =>
         coverage_analysis.topology_classification = "topology_issues"

\* C21 witness: an analysed list with a gap of exactly 25 dB (no issue), a
\* gap of exactly 35 dB (medium) and a gap above 35 dB (high).
C21_Witness ==
   /\ pc = "done"
   /\ \E a, b, c \in 1..(Len(sorted_signals) - 1) :
         /\ sorted_signals[a] - sorted_signals[a + 1] = 25
         /\ sorted_signals[b] - sorted_signals[b + 1] = 35
         /\ sorted_signals[c] - sorted_signals[c + 1] > 35
   /\ Cardinality(IssuesOfType("large_coverage_gap")) = 2

\* the issues of one type, with their severities
SeveritiesOfType(t) == {coverage_issues[k].severity : k \in IssuesOfType(t)}

\* C22: the zone-derived issues follow from the occupancy of the zones, each
\* at most once and each on its own condition: missing_intermediate_coverage
\* (medium) exactly when secondary is empty and primary and tertiary are not;
\* node_clustering (low) exactly when more than 60% of the nodes are in
\* primary; isolated_distant_node (medium) exactly when fringe is non-empty
\* and tertiary is empty, as for the signals [-40, -55, -90].
C22_ZoneIssues ==
   /\ IssuesDetected =>
         /\ \A t \in {"missing_intermediate_coverage", "node_clustering",
                      "isolated_distant_node"} : Cardinality(IssuesOfType(t)) <= 1
         /\ IssuesOfType("missing_intermediate_coverage") # {}
               <=> (zones.secondary = <<>> /\ zones.primary # <<>> /\ zones.tertiary # <<>>)
         /\ SeveritiesOfType("missing_intermediate_coverage") \subseteq {"medium"}
         /\ IssuesOfType("node_clustering") # {}
               <=> 100 * Len(zones.primary) > 60 * Len(sorted_signals)
         /\ SeveritiesOfType("node_clustering") \subseteq {"low"}
         /\ IssuesOfType("isolated_distant_node") # {}
               <=> (zones.fringe # <<>> /\ zones.tertiary = <<>>)
         /\ SeveritiesOfType("isolated_distant_node") \subseteq {"medium"}
   /\ (IssuesDetected /\ sorted_signals = <<-40, -55, -90>>) =>
         SeveritiesOfType("isolated_distant_node") = {"medium"}

\* C22 witness: five nodes of which exactly three (60%) are in primary, so
\* that no node_clustering issue is raised, with an isolated distant node.
C22_Witness ==
   /\ IssuesDetected
   /\ Len(sorted_signals) = 5
   /\ Len(zones.primary) = 3
   /\ IssuesOfType("node_clustering") = {}
   /\ IssuesOfType("isolated_distant_node") # {}

\* a finished analysis of two or more nodes without an issue of severity
\* medium or high
OnlyLowIssues ==
   /\ CoverageDone
   /\ Len(sorted_signals) >= 2
   /\ IssuesOfSeverity("medium") = 0
   /\ IssuesOfSeverity("high") = 0

\* C27: an analysis of n >= 2 nodes without a medium- or high-severity issue
\* has a quality score of at least 95 before clamping, and its label follows
\* from n alone: excellent_topology for n >= 4, good_topology for n = 3,
\* basic_topology for n = 2.
C27_LabelByNodeCount ==
   OnlyLowIssues =>
      /\ RawQualityScore(signal_gaps, zones, coverage_issues) >= 95
      /\ coverage_analysis.topology_classification = "excellent_topology"
            <=> Len(sorted_signals) >= 4
      /\ coverage_analysis.topology_classification = "good_topology"
            <=> Len(sorted_signals) = 3
      /\ coverage_analysis.topology_classification = "basic_topology"
            <=> Len(sorted_signals) = 2

\* C27 witness: four or more clustered nodes with no secondary node and a
\* gap of 20 dB, whose score before clamping is exactly 95.
C27_Witness ==
   /\ OnlyLowIssues
   /\ Len(sorted_signals) >= 4
   /\ IssuesOfSeverity("low") = 1
   /\ RawQualityScore(signal_gaps, zones, coverage_issues) = 95
   /\ coverage_analysis.topology_classification = "excellent_topology"

\* the fixed slots of the triangle and of the diamond, in 1/100
TriangleSlots == <<[x |-> 3500, y |-> 3500], [x |-> 6500, y |-> 3500], [x |-> 5000, y |-> 6500]>>
DiamondSlots == <<[x |-> 4000, y |-> 3500], [x |-> 6000, y |-> 3500],
                  [x |-> 3500, y |-> 5500], [x |-> 6500, y |-> 5500]>>

\* C23: for exactly 3 or exactly 4 nodes there is one position per node, the
\* positions are a permutation of the triangle or diamond slots, and the
\* node with the k-th strongest signal, equal signals in input order, is in
\* slot k; the strongest node is in slot 0 wherever it stands in the input.
C23_SlotAssignment ==
   (VennGenerated /\ Len(nodes_data) \in {3, 4}) =>
      LET slots == IF Len(nodes_data) = 3 THEN TriangleSlots ELSE DiamondSlots
          n == Len(nodes_data)
          SlotOf(i) == CHOOSE k \in 1..n : slots[k] = venn_data.nodes[i].position
          Before(i, j) == \/ nodes_data[i].signal > nodes_data[j].signal
                          \/ nodes_data[i].signal = nodes_data[j].signal /\ i < j
      IN  /\ Len(venn_data.nodes) = n
          /\ \A i \in 1..n : venn_data.nodes[i].position \in Range(slots)
          /\ {venn_data.nodes[i].position : i \in 1..n} = Range(slots)
          /\ \A i, j \in 1..n : i # j => (SlotOf(i) < SlotOf(j) <=> Before(i, j))
          /\ \A i \in 1..n :
                (\A j \in 1..n : j # i => Before(i, j)) => venn_data.nodes[i].position = slots[1]

\* C23 witness: four nodes, the strongest signal held by the last two, so
\* that the third node is in slot 0 and the fourth in slot 1.
C23_Witness ==
   /\ VennGenerated
   /\ Len(nodes_data) = 4
   /\ nodes_data[3].signal = nodes_data[4].signal
   /\ nodes_data[3].signal > nodes_data[1].signal
   /\ nodes_data[3].signal > nodes_data[2].signal
   /\ venn_data.nodes[3].position = DiamondSlots[1]
   /\ venn_data.nodes[4].position = DiamondSlots[2]

\* C24: calculate_overlap_percentage returns a value, without an error, for
\* every pair of nodes; the intersection formula, which divides by 2*d*r1
\* and 2*d*r2, is reached only with d > 0 and positive radii; centres that
\* coincide (d = 0) return through the enclosed-circle branch, 100 for equal
\* radii and 100 * min^2 / max^2 for unequal ones.
C24_NoDivisionByZero ==
   /\ ~(pc = "raised" /\ overlap_call # NoResult)
   /\ OverlapCalled =>
         /\ overlap_call.value \in 0..(100 * 100)
         /\ overlap_call.line = 156 =>
               /\ CallDistanceSquared > 0
               /\ overlap_call.r1 > 0
               /\ overlap_call.r2 > 0
         /\ CallDistanceSquared = 0 =>
               /\ overlap_call.line = 145
               /\ overlap_call.r1 = overlap_call.r2 => overlap_call.value = 100 * 100
               /\ overlap_call.r1 # overlap_call.r2 =>
                     overlap_call.value =
                        (100 * 100 * Min2(overlap_call.r1, overlap_call.r2)
                                   * Min2(overlap_call.r1, overlap_call.r2))
                        \div (Max2(overlap_call.r1, overlap_call.r2)
                                 * Max2(overlap_call.r1, overlap_call.r2))

\* C24 witness: a call on two nodes of equal radius at the same centre,
\* returned with 100 by the enclosed-circle branch.
C24_Witness ==
   /\ OverlapCalled
   /\ overlap_call.node1.position = overlap_call.node2.position
   /\ overlap_call.r1 = overlap_call.r2
   /\ overlap_call.line = 145
   /\ overlap_call.value = 100 * 100

\* the overlap quality of two or more nodes has been assessed
OverlapAssessed == pc = "assessed" /\ Len(nodes_data) >= 2

\* the retained overlaps with a percentage (in 1/100 %) within lo..hi
OverlapsWithin(lo, hi) ==
   {k \in DOMAIN venn_data.overlaps :
       /\ venn_data.overlaps[k].overlap_percentage >= lo
       /\ venn_data.overlaps[k].overlap_percentage <= hi}

\* C25: for 2 or more nodes the score is (30 if retained pairs / possible
\* pairs > 0.7, 20 if > 0.5, else 10) + (25 if an overlap above 30% and one
\* of 15-30% both exist, 15 if one of 15-30% exists and none above 30%, else
\* 0) + (20 if any overlap is retained) + (25 if the average overlap is above
\* 25, 15 if above 15, 10 if above 5, else 0); it is never above 100; the
\* label is excellent for 80 and more, good for 60..79, fair for 40..59 and
\* poor below 40.
C25_OverlapScore ==
   OverlapAssessed =>
      LET n == Len(venn_data.nodes)
          possible == (n * (n - 1)) \div 2
          actual == Len(venn_data.overlaps)
          high == OverlapsWithin(30 * 100 + 1, 100 * 100) # {}
          medium == OverlapsWithin(15 * 100, 30 * 100) # {}
          avg == venn_data.avg_overlap
          expected ==
             (IF 10 * actual > 7 * possible THEN 30
              ELSE IF 10 * actual > 5 * possible THEN 20 ELSE 10)
             + (IF high /\ medium THEN 25 ELSE IF medium THEN 15 ELSE 0)
             + (IF actual > 0 THEN 20 ELSE 0)
             + (IF avg > 2500 THEN 25 ELSE IF avg > 1500 THEN 15
                ELSE IF avg > 500 THEN 10 ELSE 0)
      IN  /\ assessment.score = expected
          /\ assessment.score <= 100
          /\ assessment.quality = "excellent" <=> assessment.score >= 80
          /\ assessment.quality = "good" <=> (60 <= assessment.score /\ assessment.score < 80)
          /\ assessment.quality = "fair" <=> (40 <= assessment.score /\ assessment.score < 60)
          /\ assessment.quality = "poor" <=> assessment.score < 40

\* C25 witness: an assessment of exactly 60 points, rated good, made of 10
\* points for the pair ratio, 15 for medium overlaps without a high one, 20
\* for a retained pair and 15 for the average.
C25_Witness ==
   /\ OverlapAssessed
   /\ assessment.score = 60
   /\ assessment.quality = "good"
   /\ OverlapsWithin(15 * 100, 30 * 100) # {}
   /\ OverlapsWithin(30 * 100 + 1, 100 * 100) = {}
   /\ venn_data.avg_overlap > 1500
   /\ 10 * Len(venn_data.overlaps) <= 5 * ((Len(nodes_data) * (Len(nodes_data) - 1)) \div 2)

\* C28: for the venn data of 2 or more nodes, which hold each pair of nodes
\* at most once, lower id first, and only if it overlaps by more than 5%,
\* the score is exactly 10 and the label poor when no pair is retained, and
\* the score is at least 40 otherwise; the label is poor exactly when no
\* pair overlaps by more than 5%.
C28_PoorIffNoOverlap ==
   OverlapAssessed =>
      /\ \A k \in DOMAIN venn_data.overlaps :
            /\ venn_data.overlaps[k].overlap_percentage > 5 * 100
            /\ venn_data.overlaps[k].node1_id < venn_data.overlaps[k].node2_id
            /\ venn_data.overlaps[k].overlap_percentage =
                  calculate_overlap_percentage(venn_data.nodes[venn_data.overlaps[k].node1_id + 1],
                                               venn_data.nodes[venn_data.overlaps[k].node2_id + 1])
            /\ \A m \in DOMAIN venn_data.overlaps :
                  (/\ venn_data.overlaps[m].node1_id = venn_data.overlaps[k].node1_id
                   /\ venn_data.overlaps[m].node2_id = venn_data.overlaps[k].node2_id) => m = k
      /\ venn_data.overlaps = <<>> => (assessment.score = 10 /\ assessment.quality = "poor")
      /\ venn_data.overlaps # <<>> => assessment.score >= 40
      /\ assessment.quality = "poor"
            <=> \A i, j \in DOMAIN venn_data.nodes :
                   i < j => calculate_overlap_percentage(venn_data.nodes[i], venn_data.nodes[j])
                               <= 5 * 100
      /\ ~(10 < assessment.score /\ assessment.score < 40)

\* C28 witness: three or more nodes with a single retained pair among them
\* and a score of exactly 40.
C28_Witness ==
   /\ OverlapAssessed
   /\ Len(nodes_data) >= 3
   /\ Len(venn_data.overlaps) = 1
   /\ assessment.score = 40
   /\ assessment.quality = "fair"

\* the mesh nodes of a mesh result: each base identifier with its radios
NodeSet(r) ==
   {[base_mac |-> r.mesh_nodes[k].base_mac, radios |-> Range(r.mesh_nodes[k].radios)] :
       k \in DOMAIN r.mesh_nodes}

\* C26: analyze_mesh_topology forms the same set of mesh nodes (same base
\* identifiers with the same radios) for an observation list and for every
\* permutation of it, hence the same total_nodes, mesh_type and coverage
\* analysis.
C26_OrderIndependence ==
   (pc = "done" /\ previous_result # NoResult) =>
      /\ result.type = previous_result.type
      /\ result.type = "mesh" =>
            /\ NodeSet(result) = NodeSet(previous_result)
            /\ result.total_nodes = previous_result.total_nodes
            /\ result.mesh_type = previous_result.mesh_type
            /\ result.coverage_analysis = previous_result.coverage_analysis

\* the disconnect and reconnect events recorded, oldest first
DropsAndReturns == SelectSeq(events, LAMBDA e : e.type \in {"disconnect", "reconnect"})

\* every event recorded so far is still in the deque
NothingDropped == events # <<>> /\ events[1].id = 1

\* C30: over any sequence of sampled states the recorded disconnect and
\* reconnect events alternate, starting with a disconnect: every reconnect
\* follows a disconnect recorded after the reconnect before it, and its
\* downtime_seconds is the time from that disconnect to the reconnect.
C30_DisconnectReconnectAlternate ==
   NothingDropped =>
      \A k \in DOMAIN DropsAndReturns :
         /\ DropsAndReturns[k].type = (IF k % 2 = 1 THEN "disconnect" ELSE "reconnect")
         /\ k % 2 = 0 =>
               DropsAndReturns[k].downtime_seconds =
                  DropsAndReturns[k].timestamp - DropsAndReturns[k - 1].timestamp

\* event n is in the deque; a line of the log is that of event n
Appended(n) == \E k \in DOMAIN events : events[k].id = n
Logged(n) == \E k \in DOMAIN log : log[k].event = n

\* the lines of the log are those of distinct events, in the order in which
\* the events were appended
LogInOrder == \A j, k \in DOMAIN log : j < k => log[j].event < log[k].event

\* the user has ended the session
SessionEnded == pc \in {"joining", "joined"}

\* C29: in continuous_quality_monitor every event the monitoring thread
\* appends to the event buffer is eventually written to the log (as long as
\* the session is not ended), exactly once and in append order, also when
\* more events are appended than the buffer holds.
C29_EveryEventLogged ==
   /\ []LogInOrder
   /\ \A n \in 1..MaxEvents : Appended(n) ~> (Logged(n) \/ SessionEnded)
=============================================================================
